---- MODULE Spec2Model ----
(***************************************************************************)
(* State-machine model of the batch execution core of the ad generator:    *)
(*   core/pipeline.py   AdPipeline (run, _run_single, _run_threaded,       *)
(*                      _process), ShutdownHandler, Stats                  *)
(*   core/progress.py   ProgressManager                                    *)
(*   utils/concurrency.py  ThreadSafeSet, RateLimiter, CircuitBreaker      *)
(*   search/base.py     BaseSearchEngine.safe_search                       *)
(*   imaging/downloader.py  ImageDownloader.download_best                  *)
(***************************************************************************)
EXTENDS Integers, Sequences, FiniteSets, TLC

(***************************************************************************)
(* Bounds of the pipeline model.                                           *)
(***************************************************************************)
NRows == 2
MaxRuns == 2
MaxDlqRetries == 2

Rows == 0 .. (NRows - 1)

\* cfg.pipeline.max_workers: 1 selects _run_single, more selects _run_threaded
WorkerChoices == {1, 2}

VARIABLES
    cfg,        \* AppConfig fields read by run(): resume, max_workers, enable_dlq, dlq_retries, chunk_size
    runNo,      \* how many times the program has been started
    dpc,        \* position of the dispatcher thread inside run()
    pass,       \* "main" while chunks run, "dlq" during the dead-letter pass
    indices,    \* run(): the list of rows to process
    chunkPos,   \* run(): offset of the next chunk in indices
    batch,      \* _run_indices(): the list handed to _run_single / _run_threaded
    bpos,       \* position of the for-loop over batch (1-based)
    pending,    \* _run_threaded(): the pending dict, as the sequence of its row keys
    shutdown,   \* ShutdownHandler._event
    prog,       \* the progress table of ProgressManager, one record per row
    stats,      \* Stats counters
    task,       \* per row: the _process call / pool future for that row
    hist,       \* history variables (observations only; no action reads them in a guard)
    now,        \* time.monotonic(), in ticks
    breaker,    \* CircuitBreaker: threshold, cooldown, _failures, _opened_at
    caller,     \* per worker: its position inside safe_search
    bh,         \* history of the breaker (observations only)
    limiter,    \* RateLimiter: _interval, _last, and the holder of _lock (0: free)
    waiter,     \* per worker: its position inside wait() and the end of its sleep
    starts,     \* history: the provider calls started, in order
    dset,       \* ThreadSafeSet: _data and the holder of _lock (0: free)
    adder,      \* per thread: its position inside add(), the key, the value to return
    dh,         \* history of add(): True answers per key, calls made
    squery,     \* per row: the query built for it
    sconf,      \* whether the downloader has a verifier
    sel,        \* per row: the position of its worker in _process / download_best
    hashes,     \* search.downloaded_hashes, the ThreadSafeSet of seen digests
    cache,      \* the image_cache table, by query
    files,      \* the temp directory: path -> digest of the image in the file
    sh,         \* history of the selection (observations only)
    rng,        \* run(): the index options, the table length and the index lists
    sd,         \* ShutdownHandler: event, counter, lock, the running _handle frames
    rw,         \* one row in detail: its _process call, meta, counters, files, record
    pm,         \* one ProgressManager under any sequence of calls, with its history
    ic,         \* ImageCache: the table by query hash, the files on disk, the last calls
    br,         \* SearchManager.search: one call, its locals and what the engines returned
    pl,         \* _run_single and _run_threaded side by side on the same rows and outcomes
    tb,         \* the row table lock and the checkpoint counter under the pool's workers
    wr,         \* the dispatchers recording rows while writes to progress.db can raise
    st          \* download_best: the Stage-1 loop over the ranked candidates

pvars == <<cfg, runNo, dpc, pass, indices, chunkPos, batch, bpos, pending,
           shutdown, prog, stats, task, hist>>

bvars == <<breaker, caller, bh>>

lvars == <<limiter, waiter, starts>>

dvars == <<dset, adder, dh>>

svars == <<squery, sconf, sel, hashes, cache, files, sh>>

details == <<rng, sd, rw, pm, ic, br, pl, tb, wr, st>>

\* everything the pipeline actions leave alone
services == <<now, bvars, lvars, dvars, svars, details>>

vars == <<pvars, now, bvars, lvars, dvars, svars, details>>

(***************************************************************************)
(* ProgressManager (core/progress.py).  A row that is not in the table is  *)
(* the record with status "absent".                                        *)
(***************************************************************************)
AbsentRecord == [status |-> "absent", retries |-> 0, source |-> "", error |-> FALSE]

\* the empty table left by _ensure() on a new database and by reset()
reset == [i \in Rows |-> AbsentRecord]

is_done(p, i) == p[i].status = "done"

\* variant: INSERT OR IGNORE, an existing record is kept
mark_done_ignore(p, i, meta) ==
    IF p[i].status # "absent" THEN p
    ELSE [p EXCEPT ![i] = [status |-> "done", retries |-> 0,
                           source |-> meta.source, error |-> FALSE]]

\* INSERT OR REPLACE names no retries column: the column takes its DEFAULT 0
mark_done(p, i, meta) ==
    [p EXCEPT ![i] = [status |-> "done", retries |-> 0,
                      source |-> meta.source, error |-> FALSE]]

\* variant: the existing record is not read, retries is always 1
mark_failed_first(p, i, meta) ==
    [p EXCEPT ![i] = [status |-> "failed", retries |-> 1,
                      source |-> "", error |-> meta.error]]

\* retries = existing.retries + 1 when the row exists, else 1; source is not written
mark_failed(p, i, meta) ==
    [p EXCEPT ![i] = [status |-> "failed",
                      retries |-> IF p[i].status = "absent" THEN 1 ELSE p[i].retries + 1,
                      source |-> "", error |-> meta.error]]

\* a sequence of the members of the set S of rows, in index order
RECURSIVE SortedSeq(_)
SortedSeq(S) ==
    IF S = {} THEN <<>>
    ELSE LET m == CHOOSE x \in S : \A y \in S : x <= y
         IN <<m>> \o SortedSeq(S \ {m})

\* variant: retries <= max_retries
get_dead_letters_inclusive(p, max_retries) ==
    SortedSeq({i \in Rows : p[i].status = "failed" /\ p[i].retries <= max_retries})

\* variant: the status = 'failed' condition left out
get_dead_letters_any_status(p, max_retries) ==
    SortedSeq({i \in Rows : p[i].status # "absent" /\ p[i].retries < max_retries})

\* variant: the retries < max_retries condition left out
get_dead_letters_all_failed(p, max_retries) ==
    SortedSeq({i \in Rows : p[i].status = "failed"})

get_dead_letters(p, max_retries) ==
    SortedSeq({i \in Rows : p[i].status = "failed" /\ p[i].retries < max_retries})

(***************************************************************************)
(* Stats (core/pipeline.py): AtomicCounter fields.                         *)
(***************************************************************************)
ZeroStats == [total |-> 0, success |-> 0, failed |-> 0, placeholder |-> 0,
              skipped |-> 0, dlq_retries |-> 0]

increment(s, field, n) == [s EXCEPT ![field] = @ + n]

\* _process line 2793: self.stats.success.increment()
CountSuccess(s) == increment(s, "success", 1)

\* variant: the except clause does not count the failure
CountFailureMissing(s) == s

\* _process line 2799: self.stats.failed.increment()
CountFailure(s) == increment(s, "failed", 1)

\* _process line 2807: self.stats.total.increment()
CountTotal(s) == increment(s, "total", 1)

(***************************************************************************)
(* The meta dict of _process and the future that carries it.               *)
(*   pc: "none"      no call / no future for this row                      *)
(*       "queued"    submitted to the pool (or called, serial) - not begun *)
(*       "fetch"     past the first shutdown check, before search          *)
(*       "compose"   image obtained, before the check ahead of compose     *)
(*       "composing" past the last shutdown check, before the row is done  *)
(*       "finally"   at the finally block                                  *)
(*       "done"      returned (future finished)                            *)
(*       "cancelled" future cancelled before it began                      *)
(***************************************************************************)
NoTask == [pc |-> "none", success |-> FALSE, skipped |-> FALSE,
           source |-> "", error |-> FALSE, raised |-> FALSE]

Running(t) == {i \in Rows : t[i].pc \in {"fetch", "compose", "composing", "finally"}}

Quiescent(t) == \A i \in Rows : t[i].pc \in {"none", "done", "cancelled"}

ZeroHist == [att       |-> [i \in Rows |-> <<>>],  \* this run's attempts of the row (calls past
                                                  \* line 2604): "run", "ok", "fail" or "skip"
             succ      |-> [i \in Rows |-> 0],   \* times the row reached success = True since
                                                  \* the store was last started afresh
             phOk      |-> 0,                    \* rows completed with a placeholder, this run
             midSkip   |-> 0,                    \* rows abandoned mid-row on shutdown, this run
             dispFail  |-> 0,                    \* failed increments done by the dispatcher
             tripped   |-> FALSE,                \* shutdown was set during this run
             prevTrip  |-> FALSE,                \* ... during the previous run
             staleDone |-> FALSE,                \* run started without resume on a store
                                                  \* that held a done row
             flaky     |-> FALSE,                \* some row had two different outcomes
             out       |-> [i \in Rows |-> "none"]] \* the row's latest outcome

\* hist with the latest attempt of row i concluded as r
Conclude(h, i, r) == [h EXCEPT !.att[i] = [@ EXCEPT ![Len(@)] = r]]

\* hist with the outcome o of an attempt of row i noted
NoteOutcome(h, i, o) ==
    [h EXCEPT !.out[i] = o,
              !.flaky = @ \/ (h.out[i] \notin {"none", o})]

Min(a, b) == IF a < b THEN a ELSE b

(***************************************************************************)
(* The program is started: cli/app.py builds the pipeline, resets the      *)
(* progress store for a run that does not resume (rst), and calls run().   *)
(* AdPipeline.run() itself never resets: rst = FALSE with resume = FALSE   *)
(* is a caller that builds AdPipeline and calls run() directly.            *)
(* run() lines 3090-3100: the index list and the skipped counter.          *)
(***************************************************************************)
\* variant: resume by count, skipping as many leading rows as there are done rows
ToProcessByCount(p, all, resume) ==
    IF resume
    THEN SubSeq(all, Cardinality({i \in Rows : is_done(p, i)}) + 1, Len(all))
    ELSE all

ToProcess(p, all, resume) ==
    IF resume THEN SelectSeq(all, LAMBDA i : ~is_done(p, i)) ELSE all

StartRun(resume, rst) ==
    /\ dpc \in {"idle", "ended"}
    /\ runNo < MaxRuns
    /\ Quiescent(task)
    /\ rst => ~resume
    /\ LET p   == IF rst THEN reset ELSE prog
           all == SortedSeq(Rows)
           todo == ToProcess(p, all, resume)
       IN /\ prog' = p
          /\ indices' = todo
          /\ stats' = increment(ZeroStats, "skipped", Len(all) - Len(todo))
          /\ hist' = [ZeroHist EXCEPT
                         !.prevTrip = hist.tripped,
                         !.succ = IF resume THEN hist.succ ELSE ZeroHist.succ,
                         !.staleDone = ~resume /\ \E i \in Rows : is_done(p, i),
                         !.out = hist.out,
                         !.flaky = hist.flaky]
    /\ cfg' = [cfg EXCEPT !.resume = resume]
    /\ runNo' = runNo + 1
    /\ shutdown' = FALSE
    /\ task' = [i \in Rows |-> NoTask]
    /\ dpc' = "chunks"
    /\ pass' = "main"
    /\ chunkPos' = 0
    /\ batch' = <<>>
    /\ bpos' = 1
    /\ pending' = <<>>
    /\ UNCHANGED services

\* _run_indices(): the serial or the pooled path
RunIndicesPc == IF cfg.max_workers <= 1 THEN "single" ELSE "submit"

\* variant: the dead-letter pass is followed by the loop over chunks again
ReturnPcChunks == "chunks"

\* where the dispatcher continues when _run_indices() returns
ReturnPc == IF pass = "main" THEN "chunks" ELSE "finally"

\* run() lines 3113-3121: the loop over chunks
NextChunk ==
    /\ dpc = "chunks"
    /\ IF chunkPos >= Len(indices) \/ shutdown
       THEN /\ dpc' = "dlq"
            /\ UNCHANGED <<chunkPos, batch, bpos>>
       ELSE /\ batch' = SubSeq(indices, chunkPos + 1,
                               Min(chunkPos + cfg.chunk_size, Len(indices)))
            /\ chunkPos' = chunkPos + cfg.chunk_size
            /\ bpos' = 1
            /\ dpc' = RunIndicesPc
    /\ pending' = <<>>
    /\ UNCHANGED <<cfg, runNo, pass, indices, shutdown, prog, stats, task, hist>>
    /\ UNCHANGED services

\* run() lines 3124-3129: the dead-letter pass
DeadLetterPass ==
    /\ dpc = "dlq"
    /\ LET dlq == get_dead_letters(prog, cfg.dlq_retries)
       IN IF cfg.enable_dlq /\ ~shutdown /\ dlq # <<>>
          THEN /\ stats' = increment(stats, "dlq_retries", Len(dlq))
               /\ pass' = "dlq"
               /\ batch' = dlq
               /\ bpos' = 1
               /\ dpc' = RunIndicesPc
          ELSE /\ dpc' = "finally"
               /\ UNCHANGED <<stats, pass, batch, bpos>>
    /\ pending' = <<>>
    /\ UNCHANGED <<cfg, runNo, indices, chunkPos, shutdown, prog, task, hist>>
    /\ UNCHANGED services

\* run() lines 3135-3160: the finally block; run() returns
RunFinally ==
    /\ dpc = "finally"
    /\ dpc' = "ended"
    \* the locals of run() are gone
    /\ indices' = <<>>
    /\ chunkPos' = 0
    /\ batch' = <<>>
    /\ bpos' = 1
    /\ UNCHANGED <<cfg, runNo, pass, pending, shutdown, prog, stats, task, hist>>
    /\ UNCHANGED services

\* ShutdownHandler._handle (first signal) / request_stop: the event is set
Trip ==
    /\ dpc \notin {"idle", "ended"}
    /\ ~shutdown
    /\ shutdown' = TRUE
    /\ hist' = [hist EXCEPT !.tripped = TRUE]
    /\ UNCHANGED <<cfg, runNo, dpc, pass, indices, chunkPos, batch, bpos, pending,
                   prog, stats, task>>
    /\ UNCHANGED services

(***************************************************************************)
(* Task completion, lines 3024-3037 and 3063-3076: mark_done if success,   *)
(* else mark_failed unless skipped.                                        *)
(***************************************************************************)
\* variant: a result that is not a success is always recorded as a failure
RecordResultUnlessSuccess(p, i, meta) ==
    IF meta.success THEN mark_done(p, i, meta) ELSE mark_failed(p, i, meta)

RecordResult(p, i, meta) ==
    IF meta.success THEN mark_done(p, i, meta)
    ELSE IF ~meta.skipped THEN mark_failed(p, i, meta)
    ELSE p

\* lines 3041-3043: fut.result() raised: mark_failed(idx, {"error": str(exc)})
RecordCrash(p, i) == mark_failed(p, i, [error |-> TRUE])

\* _run_single lines 3057-3061: next row of the batch, or leave the loop
SingleStep ==
    /\ dpc = "single"
    /\ IF bpos > Len(batch) \/ shutdown
       THEN /\ dpc' = ReturnPc
            /\ task' = task
       ELSE /\ task' = [task EXCEPT ![batch[bpos]] = [NoTask EXCEPT !.pc = "queued"]]
            /\ dpc' = "call"
    /\ UNCHANGED <<cfg, runNo, pass, indices, chunkPos, batch, bpos, pending,
                   shutdown, prog, stats, hist>>
    /\ UNCHANGED services

\* _run_single lines 3061-3078: _process returned (or raised); the result is recorded
SingleResult ==
    /\ dpc = "call"
    /\ LET i == batch[bpos]
       IN /\ task[i].pc = "done"
          /\ IF task[i].raised
             THEN \* nothing catches the exception: it leaves run() through its finally
                  /\ dpc' = "finally"
                  /\ UNCHANGED <<prog, bpos>>
             ELSE /\ prog' = RecordResult(prog, i, task[i])
                  /\ bpos' = bpos + 1
                  /\ dpc' = "single"
    /\ UNCHANGED <<cfg, runNo, pass, indices, chunkPos, batch, pending,
                   shutdown, stats, task, hist>>
    /\ UNCHANGED services

\* _run_threaded lines 2998-3002: submit the next row, or leave the loop
Submit ==
    /\ dpc = "submit"
    /\ IF bpos > Len(batch) \/ shutdown
       THEN /\ dpc' = "poll"
            /\ UNCHANGED <<task, pending, bpos>>
       ELSE /\ task' = [task EXCEPT ![batch[bpos]] = [NoTask EXCEPT !.pc = "queued"]]
            /\ pending' = Append(pending, batch[bpos])
            /\ bpos' = bpos + 1
            /\ dpc' = "submit"
    /\ UNCHANGED <<cfg, runNo, pass, indices, chunkPos, batch,
                   shutdown, prog, stats, hist>>
    /\ UNCHANGED services

\* the futures of pending that are done, in the order of the pending dict
DoneFutures(t, pend) == SelectSeq(pend, LAMBDA i : t[i].pc \in {"done", "cancelled"})

\* lines 3020-3044 over the snapshot done_futures: the progress table afterwards
RECURSIVE DrainProgress(_, _, _)
DrainProgress(p, t, ds) ==
    IF ds = <<>> THEN p
    ELSE LET i == Head(ds)
         IN DrainProgress(IF t[i].raised THEN RecordCrash(p, i)
                          ELSE RecordResult(p, i, t[i]),
                          t, Tail(ds))

\* ... and how many times line 3043 ran
RaisedCount(t, ds) == Cardinality({k \in 1 .. Len(ds) : t[ds[k]].raised})

\* _run_threaded lines 3004-3008 and 3047-3049: the head of one cycle of the
\* polling loop
Poll ==
    /\ dpc = "poll"
    /\ IF pending = <<>>
       THEN \* loop ends; finally: pool.shutdown
            /\ dpc' = ReturnPc
            /\ UNCHANGED <<pending, task>>
       ELSE IF shutdown
       THEN \* fut.cancel() on every pending future, break; finished and running
            \* futures are left as they are and their results are never read
            /\ task' = [i \in Rows |->
                          IF task[i].pc = "queued" THEN [task[i] EXCEPT !.pc = "cancelled"]
                          ELSE task[i]]
            /\ pending' = <<>>
            /\ dpc' = ReturnPc
       ELSE /\ dpc' = "drain"
            /\ UNCHANGED <<pending, task>>
    /\ UNCHANGED <<cfg, runNo, pass, indices, chunkPos, batch, bpos, shutdown,
                   prog, stats, hist>>
    /\ UNCHANGED services

\* _run_threaded lines 3010-3044: the finished futures are taken and their
\* results recorded (with none finished: time.sleep(0.3) and the next cycle)
PollDrain ==
    /\ dpc = "drain"
    /\ LET ds == DoneFutures(task, pending)
       IN /\ prog' = DrainProgress(prog, task, ds)
          /\ stats' = increment(stats, "failed", RaisedCount(task, ds))
          /\ hist' = [hist EXCEPT !.dispFail = @ + RaisedCount(task, ds)]
          /\ pending' = SelectSeq(pending, LAMBDA i : task[i].pc \notin {"done", "cancelled"})
    /\ dpc' = "poll"
    /\ UNCHANGED <<cfg, runNo, pass, indices, chunkPos, batch, bpos, shutdown, task>>
    /\ UNCHANGED services

(***************************************************************************)
(* AdPipeline._process(idx), run by a pool thread (or, serial, by the      *)
(* dispatcher thread itself).                                              *)
(***************************************************************************)
\* the pool starts queued work in submission order, at most max_workers at a time
MayStart(i) ==
    /\ task[i].pc = "queued"
    /\ Cardinality(Running(task)) < cfg.max_workers
    /\ \A k \in 1 .. Len(batch) :
          (batch[k] # i /\ task[batch[k]].pc = "queued") =>
              \E n \in 1 .. (k - 1) : batch[n] = i

\* lines 2600-2619: the shutdown short-circuit, then the row, the query and the
\* worker directory, all ahead of the try block (mkdir can raise)
ProcessBegin(i) ==
    /\ MayStart(i)
    /\ IF shutdown
       THEN /\ task' = [task EXCEPT ![i] = [@ EXCEPT !.pc = "done", !.skipped = TRUE]]
            /\ hist' = hist
       ELSE \E crash \in BOOLEAN :
            /\ task' = [task EXCEPT ![i] =
                          IF crash THEN [@ EXCEPT !.pc = "done", !.raised = TRUE]
                          ELSE [@ EXCEPT !.pc = "fetch"]]
            /\ hist' = IF crash
                       THEN NoteOutcome([hist EXCEPT !.att[i] = Append(@, "fail")], i, "crash")
                       ELSE [hist EXCEPT !.att[i] = Append(@, "run")]
    /\ UNCHANGED <<cfg, runNo, dpc, pass, indices, chunkPos, batch, bpos, pending,
                   shutdown, prog, stats>>
    /\ UNCHANGED services

\* lines 2642-2694 (cache disabled): second shutdown check, search, download_best,
\* fallback queries, placeholder
ProcessFetch(i) ==
    /\ task[i].pc = "fetch"
    /\ IF shutdown
       THEN /\ task' = [task EXCEPT ![i] = [@ EXCEPT !.pc = "finally", !.skipped = TRUE]]
            /\ hist' = [Conclude(hist, i, "skip") EXCEPT !.midSkip = @ + 1]
            /\ stats' = stats
       ELSE \E src \in {"engine", "placeholder"} :
            /\ task' = [task EXCEPT ![i] = [@ EXCEPT !.pc = "compose", !.source = src]]
            /\ stats' = IF src = "placeholder" THEN increment(stats, "placeholder", 1)
                        ELSE stats
            /\ hist' = hist
    /\ UNCHANGED <<cfg, runNo, dpc, pass, indices, chunkPos, batch, bpos, pending,
                   shutdown, prog>>
    /\ UNCHANGED services

\* lines 2696-2698: the third shutdown check, the last one of the row
ProcessCheck(i) ==
    /\ task[i].pc = "compose"
    /\ IF shutdown
       THEN /\ task' = [task EXCEPT ![i] = [@ EXCEPT !.pc = "finally", !.skipped = TRUE]]
            /\ hist' = [Conclude(hist, i, "skip") EXCEPT !.midSkip = @ + 1]
       ELSE /\ task' = [task EXCEPT ![i] = [@ EXCEPT !.pc = "composing"]]
            /\ hist' = hist
    /\ UNCHANGED <<cfg, runNo, dpc, pass, indices, chunkPos, batch, bpos, pending,
                   shutdown, prog, stats>>
    /\ UNCHANGED services

\* lines 2700-2799: background removal, compose, stage 2, row table update and
\* success counter; or the except clause
ProcessCompose(i) ==
    /\ task[i].pc = "composing"
    /\ \E ok \in BOOLEAN :
            IF ok
            THEN /\ task' = [task EXCEPT ![i] = [@ EXCEPT !.pc = "finally", !.success = TRUE]]
                 /\ stats' = CountSuccess(stats)
                 /\ hist' = [NoteOutcome(Conclude(hist, i, "ok"), i, "ok") EXCEPT
                                !.succ[i] = Min(@ + 1, 2),
                                !.phOk = IF task[i].source = "placeholder" THEN @ + 1 ELSE @]
            ELSE /\ task' = [task EXCEPT ![i] = [@ EXCEPT !.pc = "finally", !.error = TRUE]]
                 /\ stats' = CountFailure(stats)
                 /\ hist' = NoteOutcome(Conclude(hist, i, "fail"), i, "error")
    /\ UNCHANGED <<cfg, runNo, dpc, pass, indices, chunkPos, batch, bpos, pending,
                   shutdown, prog>>
    /\ UNCHANGED services

\* lines 2801-2812: finally (temp files, total counter, checkpoint) and return
ProcessFinally(i) ==
    /\ task[i].pc = "finally"
    /\ task' = [task EXCEPT ![i] = [@ EXCEPT !.pc = "done"]]
    /\ stats' = CountTotal(stats)
    /\ UNCHANGED <<cfg, runNo, dpc, pass, indices, chunkPos, batch, bpos, pending,
                   shutdown, prog, hist>>
    /\ UNCHANGED services

(***************************************************************************)
(* The clock read by time.monotonic(), in ticks.                           *)
(***************************************************************************)
MaxClock == 12

Tick ==
    /\ now < MaxClock
    /\ now' = now + 1
    /\ UNCHANGED <<pvars, details, bvars, lvars, dvars, svars>>

(***************************************************************************)
(* CircuitBreaker (utils/concurrency.py) of one provider, and the callers  *)
(* of BaseSearchEngine.safe_search (search/base.py) on that provider.      *)
(***************************************************************************)
NCallers == 2
Cooldown == 2

Callers == 1 .. NCallers

\* SearchConfig.breaker_threshold, scaled down
ThresholdChoices == {1, 2}

\* Optional[float] None of _opened_at
None == -1

NewBreaker(threshold, cooldown) ==
    [threshold |-> threshold, cooldown |-> cooldown, failures |-> 0, opened_at |-> None]

record_success(b) == [b EXCEPT !.failures = 0, !.opened_at = None]

record_failure(b, t) ==
    LET f == b.failures + 1
    IN  [b EXCEPT !.failures = f,
                  !.opened_at = IF f >= b.threshold THEN t ELSE @]

\* is_open, second branch: the cooldown has run out
CooldownOver(b, t) == b.opened_at # None /\ t - b.opened_at > b.cooldown

\* is_open: the value returned
is_open(b, t) == b.opened_at # None /\ ~CooldownOver(b, t)

\* is_open: the breaker it leaves behind (half-open closes the breaker)
is_open_effect(b, t) ==
    IF CooldownOver(b, t) THEN [b EXCEPT !.opened_at = None, !.failures = 0] ELSE b

NoTrial == [state |-> "none", by |-> 0, at |-> 0]

ZeroBreakerHist ==
    [openedAt |-> None,     \* when record_failure last reached the threshold
     trial    |-> NoTrial,  \* the trial request granted by a half-open probe
     calls    |-> 0]        \* provider calls started

\* safe_search: `if self.breaker.is_open: return []`
Probe(w) ==
    /\ caller[w] = "idle"
    /\ breaker' = is_open_effect(breaker, now)
    /\ IF is_open(breaker, now)
       THEN UNCHANGED <<caller, bh>>
       ELSE /\ caller' = [caller EXCEPT ![w] = "limiter"]
            /\ bh' = IF CooldownOver(breaker, now)
                     THEN [bh EXCEPT !.trial = [state |-> "granted", by |-> w, at |-> now]]
                     ELSE bh
    /\ UNCHANGED <<pvars, details, now, lvars, dvars, svars>>

\* safe_search: self.limiter.wait() returns and self.search(...) is entered
CallStart(w) ==
    /\ caller[w] = "limiter"
    /\ caller' = [caller EXCEPT ![w] = "search"]
    /\ bh' = [bh EXCEPT !.calls = Min(@ + 1, NCallers)]
    /\ UNCHANGED <<pvars, details, now, breaker, lvars, dvars, svars>>

\* safe_search: what search() gave: a non-empty list, an empty list, an exception
Outcomes == {"results", "empty", "raise"}

CallReturn(w, outcome) ==
    /\ caller[w] = "search"
    /\ caller' = [caller EXCEPT ![w] = "idle"]
    /\ breaker' = CASE outcome = "results" -> record_success(breaker)
                    [] outcome = "raise"   -> record_failure(breaker, now)
                    [] OTHER               -> breaker
    /\ LET opened == outcome = "raise" /\ breaker.failures + 1 >= breaker.threshold
           mine   == bh.trial.state = "granted" /\ bh.trial.by = w
       IN  bh' = [bh EXCEPT
                    !.openedAt = IF opened THEN now ELSE @,
                    !.trial = IF ~mine THEN @
                              ELSE IF outcome = "raise"
                                   THEN [state |-> "failed", by |-> w, at |-> now]
                                   ELSE NoTrial]
    /\ UNCHANGED <<pvars, details, now, lvars, dvars, svars>>

BreakerParked ==
    /\ breaker = NewBreaker(1, Cooldown)
    /\ caller = [w \in Callers |-> "idle"]
    /\ bh = ZeroBreakerHist

InitBreaker ==
    /\ \E th \in ThresholdChoices : breaker = NewBreaker(th, Cooldown)
    /\ caller = [w \in Callers |-> "idle"]
    /\ bh = ZeroBreakerHist

(***************************************************************************)
(* RateLimiter (utils/concurrency.py) of one provider.  The interval       *)
(* 1 / calls_per_second is a whole number of ticks.  A provider call       *)
(* starts where wait() returns: safe_search enters search() next.          *)
(***************************************************************************)
TicksPerSec == 6
NWaiters == 3
MaxCalls == 4

Waiters == 1 .. NWaiters

\* the intervals of the rates 3, 2, 1.5 and 1 calls per second
IntervalChoices == {2, 3, 4, 6}

NewLimiter(interval) == [interval |-> interval, last |-> 0, lock |-> 0]

\* variant: wait() never sleeps
SleepTimeNone(gap, interval) == 0

\* wait(): `if gap < self._interval: time.sleep(self._interval - gap)`
SleepTime(gap, interval) == IF gap < interval THEN interval - gap ELSE 0

IdleWaiter == [pc |-> "idle", wake |-> 0]

\* wait(): the lock is taken, the clock is read, the sleep begins
WaitEnter(w) ==
    /\ waiter[w].pc = "idle"
    /\ limiter.lock = 0
    /\ Len(starts) < MaxCalls
    /\ limiter' = [limiter EXCEPT !.lock = w]
    /\ waiter' = [waiter EXCEPT ![w] =
                     [pc |-> "sleep",
                      wake |-> now + SleepTime(now - limiter.last, limiter.interval)]]
    /\ UNCHANGED <<pvars, details, now, bvars, starts, dvars, svars>>

\* wait(): the sleep is over, `self._last = time.monotonic()`, the lock is released
WaitLeave(w) ==
    /\ waiter[w].pc = "sleep"
    /\ now >= waiter[w].wake
    /\ limiter' = [limiter EXCEPT !.last = now, !.lock = 0]
    /\ waiter' = [waiter EXCEPT ![w] = IdleWaiter]
    /\ starts' = Append(starts, [at |-> now, by |-> w])
    /\ UNCHANGED <<pvars, details, now, bvars, dvars, svars>>

LimiterParked ==
    /\ limiter = NewLimiter(1)
    /\ waiter = [w \in Waiters |-> IdleWaiter]
    /\ starts = <<>>

InitLimiter ==
    /\ \E iv \in IntervalChoices : limiter = NewLimiter(iv)
    /\ waiter = [w \in Waiters |-> IdleWaiter]
    /\ starts = <<>>

(***************************************************************************)
(* ThreadSafeSet (utils/concurrency.py): add() by several threads, one     *)
(* step per statement under the lock.                                      *)
(***************************************************************************)
NThreads == 3
MaxAdds == 4

Threads == 1 .. NThreads

Keys == {"h1", "h2"}

\* variant: the lock excludes nobody
LockFreeAlways(l) == TRUE

\* add(): `with self._lock:` can be entered
LockFree(l) == l = 0

IdleThread == [pc |-> "idle", key |-> "h1", ret |-> FALSE]

EmptySet == [data |-> {}, lock |-> 0]

ZeroAddHist == [trues |-> [k \in Keys |-> 0], calls |-> 0]

\* a thread calls add(item) and reaches `with self._lock:`
AddCall(t, k) ==
    /\ adder[t].pc = "idle"
    /\ dh.calls < MaxAdds
    /\ adder' = [adder EXCEPT ![t] = [pc |-> "lock", key |-> k, ret |-> FALSE]]
    /\ dh' = [dh EXCEPT !.calls = @ + 1]
    /\ UNCHANGED <<pvars, details, now, bvars, lvars, dset, svars>>

\* add(): the lock is acquired
AddEnter(t) ==
    /\ adder[t].pc = "lock"
    /\ LockFree(dset.lock)
    /\ dset' = [dset EXCEPT !.lock = t]
    /\ adder' = [adder EXCEPT ![t].pc = "test"]
    /\ UNCHANGED <<pvars, details, now, bvars, lvars, dh, svars>>

\* add(): `if item in self._data: return False`
AddTest(t) ==
    /\ adder[t].pc = "test"
    /\ adder' = [adder EXCEPT ![t].pc =
                    IF adder[t].key \in dset.data THEN "exit" ELSE "insert"]
    /\ UNCHANGED <<pvars, details, now, bvars, lvars, dset, dh, svars>>

\* add(): `self._data.add(item); return True`
AddInsert(t) ==
    /\ adder[t].pc = "insert"
    /\ dset' = [dset EXCEPT !.data = @ \cup {adder[t].key}]
    /\ adder' = [adder EXCEPT ![t].pc = "exit", ![t].ret = TRUE]
    /\ UNCHANGED <<pvars, details, now, bvars, lvars, dh, svars>>

\* add(): the lock is released and the value reaches the caller
AddExit(t) ==
    /\ adder[t].pc = "exit"
    /\ dset' = [dset EXCEPT !.lock = 0]
    /\ adder' = [adder EXCEPT ![t] = IdleThread]
    /\ dh' = [dh EXCEPT !.trues[adder[t].key] = @ + (IF adder[t].ret THEN 1 ELSE 0)]
    /\ UNCHANGED <<pvars, details, now, bvars, lvars, svars>>

DedupParked ==
    /\ dset = EmptySet
    /\ adder = [t \in Threads |-> IdleThread]
    /\ dh = ZeroAddHist

(***************************************************************************)
(* Image selection: ImageDownloader.download_best (imaging/downloader.py), *)
(* the cache check and the clean-up of AdPipeline._process                 *)
(* (core/pipeline.py), ImageCache.get / put (imaging/cache.py).  Rows are  *)
(* handled by concurrent workers; hashes is the ThreadSafeSet shared by    *)
(* all of them, whose add() is atomic.  An image is named by the md5       *)
(* digest of its downloaded bytes.                                         *)
(***************************************************************************)
NSel == 2
NDigests == 2
MaxResults == 2
MaxVerify == 2
MinBeforeBest == 2
CombinedReject == 1

SelRows == 0 .. (NSel - 1)

Digests == 1 .. NDigests

Queries == {"q1", "q2"}

\* what comp.placeholder() draws: no downloaded bytes
PlaceholderImage == NDigests + 1

\* combined_score of a verification, around combined_reject
ScoreChoices == 0 .. (CombinedReject + 1)

RECURSIVE SeqsUpTo(_, _)
SeqsUpTo(S, n) ==
    IF n = 0 THEN {<<>>}
    ELSE LET shorter == SeqsUpTo(S, n - 1)
         IN  shorter \cup {Append(q, x) : q \in {p \in shorter : Len(p) = n - 1}, x \in S}

\* the lists a search can return, already ranked
ResultLists == SeqsUpTo(Digests, MaxResults)

\* tmp_img = tmp / f"dl_{idx}.jpg", and the .png beside it that _save may write
tmp_img(r) == [row |-> r, ext |-> "jpg"]

\* _save: an RGBA image goes to dest.with_suffix(".png"), any other to ".jpg"
SavePath(r, rgba) == [row |-> r, ext |-> IF rgba THEN "png" ELSE "jpg"]

Exists(fs, f) == f \in DOMAIN fs

WriteFile(fs, f, h) == (f :> h) @@ fs

Unlink(fs, f) == [g \in (DOMAIN fs) \ {f} |-> fs[g]]

NoBest == [h |-> 0, score |-> 0 - 1, rgba |-> FALSE]

IdleSel == [pc |-> "idle", left |-> <<>>, verified |-> 0, best |-> NoBest,
            cached |-> tmp_img(0), dl |-> tmp_img(0), h |-> 0, fallback |-> FALSE]

ZeroSelHist ==
    [saved  |-> [h \in Digests |-> 0],   \* files written by download_best, per digest
     copied |-> [h \in Digests |-> 0],   \* files written by a cache hit, per digest
     dups   |-> 0]                       \* candidates dropped by the hash check

\* variant: the digest is not kept
AddDigestNot(hs, h) == hs

\* ThreadSafeSet.add: the set afterwards
AddDigest(hs, h) == hs \cup {h}

\* variant: every digest counts as new
IsNewAlways(hs, h) == TRUE

\* ThreadSafeSet.add as download_best uses it: True iff the digest was not in the set
IsNew(hs, h) == h \notin hs

\* ImageCache.get followed by the test in _process line 2630
CacheGet(r) ==
    /\ sel[r].pc = "idle"
    /\ LET q == squery[r]
       IN  IF q \notin DOMAIN cache
           THEN /\ sel' = [sel EXCEPT ![r].pc = "search"]
                /\ UNCHANGED cache
           ELSE IF ~Exists(files, cache[q].file_path)
                THEN /\ cache' = [p \in (DOMAIN cache) \ {q} |-> cache[p]]
                     /\ sel' = [sel EXCEPT ![r].pc = "search"]
                ELSE /\ cache' = [cache EXCEPT ![q].hit_count = Min(@ + 1, NSel)]
                     /\ sel' = [sel EXCEPT ![r].pc = "copy", ![r].cached = cache[q].file_path]
    /\ UNCHANGED <<pvars, details, now, bvars, lvars, dvars, squery, sconf, hashes, files, sh>>

\* _process line 2633: shutil.copy2(cached["file_path"], tmp_img); a file removed
\* since the test makes copy2 raise, and the row fails
CacheCopy(r) ==
    /\ sel[r].pc = "copy"
    /\ IF Exists(files, sel[r].cached)
       THEN /\ files' = WriteFile(files, tmp_img(r), files[sel[r].cached])
            /\ sh' = IF files[sel[r].cached] \in Digests
                     THEN [sh EXCEPT !.copied[files[sel[r].cached]] = @ + 1]
                     ELSE sh
            /\ sel' = [sel EXCEPT ![r].pc = "finally", ![r].h = files[sel[r].cached]]
       ELSE /\ sel' = [sel EXCEPT ![r].pc = "finally"]
            /\ UNCHANGED <<files, sh>>
    /\ UNCHANGED <<pvars, details, now, bvars, lvars, dvars, squery, sconf, hashes, cache>>

\* _process line 2647 / 2671: self.search.search(...) and the start of download_best
Search(r, results) ==
    /\ sel[r].pc = "search"
    /\ sel' = [sel EXCEPT ![r].pc = "loop", ![r].left = results,
                          ![r].verified = 0, ![r].best = NoBest]
    /\ UNCHANGED <<pvars, details, now, bvars, lvars, dvars, squery, sconf, hashes, cache, files, sh>>

\* _save_and_return: the file is written
Saved(r, h, rgba) ==
    /\ files' = WriteFile(files, SavePath(r, rgba), h)
    /\ sel' = [sel EXCEPT ![r].pc = "put", ![r].left = <<>>, ![r].verified = 0,
                          ![r].best = NoBest, ![r].dl = SavePath(r, rgba), ![r].h = h]

\* download_best: one turn of `for r in ranked`
Candidate(r) ==
    /\ sel[r].pc = "loop"
    /\ IF sel[r].left = <<>> \/ (sconf.verifier /\ sel[r].verified >= MaxVerify)
       THEN /\ sel' = [sel EXCEPT ![r].pc = "exhausted", ![r].left = <<>>]
            /\ UNCHANGED <<hashes, files, sh>>
       ELSE LET h    == Head(sel[r].left)
                rest == [sel EXCEPT ![r].left = Tail(@)]
            IN  \E fetched \in BOOLEAN :
                  IF ~fetched
                  THEN sel' = rest /\ UNCHANGED <<hashes, files, sh>>
                  ELSE IF ~IsNew(hashes, h)
                  THEN /\ sel' = rest
                       /\ sh' = [sh EXCEPT !.dups = Min(@ + 1, MaxResults)]
                       /\ UNCHANGED <<hashes, files>>
                  ELSE /\ hashes' = AddDigest(hashes, h)
                       /\ \E ok \in BOOLEAN, rgba \in BOOLEAN :
                            IF ~ok
                            THEN sel' = rest /\ UNCHANGED <<files, sh>>
                            ELSE IF ~sconf.verifier
                            THEN /\ Saved(r, h, rgba)
                                 /\ sh' = [sh EXCEPT !.saved[h] = @ + 1]
                            ELSE \E score \in ScoreChoices, accepted \in BOOLEAN :
                                   LET n    == sel[r].verified + 1
                                       best == IF score > sel[r].best.score
                                               THEN [h |-> h, score |-> score, rgba |-> rgba]
                                               ELSE sel[r].best
                                   IN  IF accepted
                                       THEN /\ Saved(r, h, rgba)
                                            /\ sh' = [sh EXCEPT !.saved[h] = @ + 1]
                                       ELSE IF n >= MinBeforeBest /\ best.score > CombinedReject
                                       THEN /\ Saved(r, best.h, best.rgba)
                                            /\ sh' = [sh EXCEPT !.saved[best.h] = @ + 1]
                                       ELSE /\ sel' = [rest EXCEPT ![r].verified = n,
                                                                   ![r].best = best]
                                            /\ UNCHANGED <<files, sh>>
    /\ UNCHANGED <<pvars, details, now, bvars, lvars, dvars, squery, sconf, cache>>

\* download_best after the loop: the best candidate, or DownloadResult(False)
Exhausted(r) ==
    /\ sel[r].pc = "exhausted"
    /\ LET best == sel[r].best
       IN  IF best.h # 0 /\ best.score > 0 /\ best.score >= CombinedReject
           THEN /\ Saved(r, best.h, best.rgba)
                /\ sh' = [sh EXCEPT !.saved[best.h] = @ + 1]
           ELSE /\ sel' = [sel EXCEPT ![r].pc = "nodl", ![r].verified = 0, ![r].best = NoBest]
                /\ UNCHANGED <<files, sh>>
    /\ UNCHANGED <<pvars, details, now, bvars, lvars, dvars, squery, sconf, hashes, cache>>

\* _process lines 2660-2679: one fallback query, else the placeholder
NoDownload(r) ==
    /\ sel[r].pc = "nodl"
    /\ \/ /\ ~sel[r].fallback
          /\ sel' = [sel EXCEPT ![r].pc = "search", ![r].fallback = TRUE]
          /\ UNCHANGED files
       \/ /\ files' = WriteFile(files, tmp_img(r), PlaceholderImage)
          /\ sel' = [sel EXCEPT ![r].pc = "finally", ![r].h = PlaceholderImage]
    /\ UNCHANGED <<pvars, details, now, bvars, lvars, dvars, squery, sconf, hashes, cache, sh>>

\* _process lines 2685-2694: self.cache.put(query=query, ..., file_path=str(dl_path), ...)
CachePut(r) ==
    /\ sel[r].pc = "put"
    /\ cache' = (squery[r] :> [file_path |-> sel[r].dl, file_hash |-> sel[r].h,
                               hit_count |-> 0]) @@ cache
    /\ sel' = [sel EXCEPT ![r].pc = "finally"]
    /\ UNCHANGED <<pvars, details, now, bvars, lvars, dvars, squery, sconf, hashes, files, sh>>

\* _process finally: tmp_img.unlink(missing_ok=True)
Cleanup(r) ==
    /\ sel[r].pc = "finally"
    /\ files' = IF Exists(files, tmp_img(r)) THEN Unlink(files, tmp_img(r)) ELSE files
    /\ sel' = [sel EXCEPT ![r] = [IdleSel EXCEPT !.pc = "done", !.h = sel[r].h]]
    /\ UNCHANGED <<pvars, details, now, bvars, lvars, dvars, squery, sconf, hashes, cache, sh>>

EmptyMap == [x \in {} |-> 0]

SelectParked ==
    /\ squery = [r \in SelRows |-> "q1"]
    /\ sconf = [verifier |-> TRUE]
    /\ sel = [r \in SelRows |-> IdleSel]
    /\ hashes = {}
    /\ cache = EmptyMap
    /\ files = EmptyMap
    /\ sh = ZeroSelHist

InitSelect ==
    /\ squery \in [SelRows -> Queries]
    /\ sconf \in [verifier : BOOLEAN]
    /\ sel = [r \in SelRows |-> IdleSel]
    /\ hashes = {}
    /\ cache = EmptyMap
    /\ files = EmptyMap
    /\ sh = ZeroSelHist

(***************************************************************************)
(* AdPipeline.run() lines 3089-3100 in detail: the index range of a run    *)
(* from cfg.start_index, cfg.end_index and the length of the row table.    *)
(***************************************************************************)
MaxTable == 3

\* the value of an index option that was not given (Optional[int] = None)
Unset == -1

IndexChoices == {Unset} \cup (0 .. MaxTable)

\* Python's "x or d": d when x is None or 0
Or(x, d) == IF x = Unset \/ x = 0 THEN d ELSE x

\* list(range(lo, hi))
Range(lo, hi) == [k \in 1 .. (IF hi > lo THEN hi - lo ELSE 0) |-> lo + k - 1]

\* lines 3090-3093: lo, hi and all_indices
AllIndices(start_index, end_index, total) ==
    LET lo == Or(start_index, 0)
        hi == Or(end_index, total)
    IN Range(lo, Min(hi, total))

NoRange == [pc |-> "idle", start_index |-> Unset, end_index |-> Unset, total |-> 0,
            resume |-> FALSE, done |-> {}, all_indices |-> <<>>, indices |-> <<>>,
            skipped |-> 0, enable_dlq |-> FALSE, dead |-> {}, dlq |-> <<>>,
            attempted |-> {}]

\* lines 3090-3093
RangeAll ==
    /\ rng.pc = "start"
    /\ rng' = [rng EXCEPT !.pc = "filter",
                          !.all_indices = AllIndices(rng.start_index, rng.end_index,
                                                     rng.total)]
    /\ UNCHANGED <<pvars, now, bvars, lvars, dvars, svars, sd, rw, pm, ic, br, pl, tb, wr, st>>

\* lines 3095-3100: the resume filter and the skipped counter
RangeFilter ==
    /\ rng.pc = "filter"
    /\ LET todo == IF rng.resume
                   THEN SelectSeq(rng.all_indices, LAMBDA i : i \notin rng.done)
                   ELSE rng.all_indices
       IN rng' = [rng EXCEPT !.pc = "ready",
                             !.indices = todo,
                             !.skipped = Len(rng.all_indices) - Len(todo)]
    /\ UNCHANGED <<pvars, now, bvars, lvars, dvars, svars, sd, rw, pm, ic, br, pl, tb, wr, st>>

\* lines 3111-3120: the chunks of the main pass, _run_indices on every index of
\* the list; rng.dead is the set of rows whose record in the progress store is
\* failed with retries < max_retries: a row of the pass that fails again and has
\* retries left (failed) is in it afterwards, every other row of the pass is not
RangeMain(failed) ==
    /\ rng.pc = "ready"
    /\ failed \subseteq {rng.indices[k] : k \in DOMAIN rng.indices}
    /\ LET tried == {rng.indices[k] : k \in DOMAIN rng.indices}
       IN rng' = [rng EXCEPT !.pc = "dlq",
                             !.attempted = @ \cup tried,
                             !.done = (@ \cup tried) \ failed,
                             !.dead = (@ \ tried) \cup failed]
    /\ UNCHANGED <<pvars, now, bvars, lvars, dvars, svars, sd, rw, pm, ic, br, pl, tb, wr, st>>

\* lines 3122-3128: the dead-letter pass, _run_indices on get_dead_letters()
\* (progress.py 190-196: every failed record with retries < max_retries, by index)
RangeDlq ==
    /\ rng.pc = "dlq"
    /\ LET dlq == IF rng.enable_dlq THEN SortedSeq(rng.dead) ELSE <<>>
       IN rng' = [rng EXCEPT !.pc = "end",
                             !.dlq = dlq,
                             !.attempted = @ \cup {dlq[k] : k \in DOMAIN dlq}]
    /\ UNCHANGED <<pvars, now, bvars, lvars, dvars, svars, sd, rw, pm, ic, br, pl, tb, wr, st>>

RangeParked == rng = NoRange

InitRange ==
    \E s \in IndexChoices, e \in IndexChoices, n \in 0 .. MaxTable,
       r \in BOOLEAN, d \in SUBSET (0 .. MaxTable - 1), q \in BOOLEAN,
       f \in SUBSET (0 .. MaxTable - 1) :
        /\ d \subseteq 0 .. (n - 1)
        /\ f \subseteq 0 .. (n - 1)
        /\ f \cap d = {}
        /\ rng = [NoRange EXCEPT !.pc = "start", !.start_index = s, !.end_index = e,
                                 !.total = n, !.resume = r, !.done = d,
                                 !.enable_dlq = q, !.dead = f]

(***************************************************************************)
(* ShutdownHandler (core/pipeline.py lines 2292-2351).  _handle is the     *)
(* SIGINT/SIGTERM handler: the interpreter runs it in the main thread      *)
(* between two bytecodes, also between two bytecodes of a _handle frame    *)
(* that is already running (signal.signal does not mask the signal), so    *)
(* handler frames nest; the innermost frame is the one that runs.          *)
(*   frame pc: "acquire"  at "with self._lock", lock not yet taken         *)
(*             "locked"   inside the with block                            *)
(*             "branch"   lock released, at "if count == 1"                *)
(***************************************************************************)
MaxSignals == 3
MaxStops == 2

\* __init__ lines 2301-2309; stops and delivered count the calls made so far
NewShutdown == [event |-> FALSE, ctrl_c_count |-> 0, lock |-> FALSE,
                frames |-> <<>>, exited |-> FALSE, code |-> 0,
                delivered |-> 0, stops |-> 0, seen |-> FALSE]

Top(fs) == fs[Len(fs)]

Pop(fs) == SubSeq(fs, 1, Len(fs) - 1)

\* a signal is delivered: a new _handle frame on top of whatever is running
Signal ==
    /\ ~sd.exited
    /\ sd.delivered < MaxSignals
    /\ sd' = [sd EXCEPT !.frames = Append(@, [pc |-> "acquire", count |-> 0]),
                        !.delivered = @ + 1]
    /\ UNCHANGED <<pvars, now, bvars, lvars, dvars, svars, rng, rw, pm, ic, br, pl, tb, wr, st>>

\* line 2322: with self._lock - threading.Lock, not reentrant: the frame waits
\* while the lock is held, also when a frame beneath it holds it
HandleAcquire ==
    /\ ~sd.exited
    /\ sd.frames # <<>>
    /\ Top(sd.frames).pc = "acquire"
    /\ ~sd.lock
    /\ sd' = [sd EXCEPT !.lock = TRUE, !.frames[Len(sd.frames)].pc = "locked"]
    /\ UNCHANGED <<pvars, now, bvars, lvars, dvars, svars, rng, rw, pm, ic, br, pl, tb, wr, st>>

\* lines 2323-2324 and the end of the with block
HandleCount ==
    /\ ~sd.exited
    /\ sd.frames # <<>>
    /\ Top(sd.frames).pc = "locked"
    /\ sd' = [sd EXCEPT !.ctrl_c_count = @ + 1,
                        !.frames[Len(sd.frames)] =
                            [pc |-> "branch", count |-> sd.ctrl_c_count + 1],
                        !.lock = FALSE]
    /\ UNCHANGED <<pvars, now, bvars, lvars, dvars, svars, rng, rw, pm, ic, br, pl, tb, wr, st>>

\* lines 2326-2338: first trip sets the event and returns; a later one exits
HandleBranch ==
    /\ ~sd.exited
    /\ sd.frames # <<>>
    /\ Top(sd.frames).pc = "branch"
    /\ IF Top(sd.frames).count = 1
       THEN sd' = [sd EXCEPT !.event = TRUE, !.frames = Pop(@)]
       ELSE sd' = [sd EXCEPT !.exited = TRUE, !.code = 1]
    /\ UNCHANGED <<pvars, now, bvars, lvars, dvars, svars, rng, rw, pm, ic, br, pl, tb, wr, st>>

\* lines 2344-2346: request_stop(); its callers are the except clauses of the
\* dispatcher, which is the main thread: no handler frame is running
RequestStop ==
    /\ ~sd.exited
    /\ sd.frames = <<>>
    /\ sd.stops < MaxStops
    /\ sd' = [sd EXCEPT !.event = TRUE, !.stops = @ + 1]
    /\ UNCHANGED <<pvars, now, bvars, lvars, dvars, svars, rng, rw, pm, ic, br, pl, tb, wr, st>>

\* lines 2340-2342: a worker reads should_stop
ShouldStop ==
    /\ ~sd.exited
    /\ sd.seen # sd.event
    /\ sd' = [sd EXCEPT !.seen = sd.event]
    /\ UNCHANGED <<pvars, now, bvars, lvars, dvars, svars, rng, rw, pm, ic, br, pl, tb, wr, st>>

ShutdownParked == sd = NewShutdown

(***************************************************************************)
(* One row in detail, on the serial path: AdPipeline._process (lines       *)
(* 2594-2812) and _recompose (2816-2885) stage by stage, the dispatcher    *)
(* recording the result, and the dead-letter pass for that row.            *)
(*   rw.pc: "idle"      the dispatcher is at its loop, before the call     *)
(*          "begin"     _process called, at its first shutdown check       *)
(*          "search"    before the check ahead of search                   *)
(*          "fallback"  first download_best returned, before the fallback  *)
(*          "source"    at "if not dl.success or dl.path is None"          *)
(*          "check3"    at the check ahead of background removal           *)
(*          "bg"        before background removal and compose              *)
(*          "stage2"    composed, before post-compose verification         *)
(*          "recompose" in the loop of _recompose                          *)
(*          "update"    before the row table update                        *)
(*          "finally"   at the finally block                               *)
(*          "returned"  _process returned                                  *)
(*          "dlq"       the pass is over; run() at the dead-letter pass    *)
(*          "ended"     run() returned                                     *)
(***************************************************************************)
MaxCandidates == 2
MaxRecompose == 2

TheRow == 0

\* what the verifier and the download make of one search result: accepted (or
\* good enough to be used as the best candidate), rejected with a combined
\* score below combined_reject, or not downloadable
Verdicts == {"acc", "rej", "bad"}

CandidateLists == SeqsUpTo(Verdicts, MaxCandidates)

\* BaseSearchEngine.safe_search over the providers of SearchManager.search:
\* an exception of a provider becomes an empty list
safe_search(raises, results) == IF raises THEN <<>> ELSE results

\* download_best as _process sees it: success, and the verification carried by
\* the result (only a saved image carries one)
download_best(results, verifier) ==
    LET good == IF verifier THEN {"acc"} ELSE {"acc", "rej"}
        found == \E k \in 1 .. Len(results) : results[k] \in good
    IN [success |-> found, verification |-> found /\ verifier]

\* some candidate was verified and all verified candidates were rejected
RejectsAll(results, verifier) ==
    /\ verifier
    /\ \E k \in 1 .. Len(results) : results[k] = "rej"
    /\ \A k \in 1 .. Len(results) : results[k] # "acc"

\* variant: one turn more than configured
AttemptsLeftOneMore(attempt, max_recompose_attempts) ==
    attempt < max_recompose_attempts + 1

\* line 2837: for attempt in range(cfg.max_recompose_attempts)
AttemptsLeft(attempt, max_recompose_attempts) == attempt < max_recompose_attempts

\* variant: never cut short
ShortCircuitNever(stop) == FALSE

\* line 2602: if self._shutdown.should_stop
ShortCircuit(stop) == stop

\* variant: a placeholder is never needed
NeedsPlaceholderNever(dl) == FALSE

\* line 2677: if not dl.success or dl.path is None
NeedsPlaceholder(dl) == ~dl.success

ZeroRowStats == [total |-> 0, success |-> 0, failed |-> 0, placeholder |-> 0,
                 verified |-> 0, verify_fails |-> 0, post_verified |-> 0,
                 post_verify_fails |-> 0, cache_hits |-> 0, dlq_retries |-> 0]

\* line 2600: meta = {"id": idx, "success": False}; an absent key is "unset"
NewMeta == [success |-> FALSE, skipped |-> FALSE, source |-> "", error |-> FALSE,
            stage2_accepted |-> "unset", recomposed |-> "unset",
            recompose_reason |-> ""]

NoDl == [success |-> FALSE, verification |-> FALSE]

\* what is remembered of the first pass and of the latest call
ZeroRowHist == [searched1 |-> FALSE,   \* a provider was called in the first pass
                raised1   |-> FALSE,   \* ... and a provider of the first pass raised
                answered1 |-> FALSE,   \* ... and a provider of the first pass answered
                error1    |-> FALSE,   \* compose raised in the first pass
                skipped1  |-> FALSE,   \* the first pass was cut short by shutdown
                rejected  |-> FALSE,   \* this call: the verifier rejected candidates
                accepted  |-> FALSE,   \* this call: download_best returned an image
                first     |-> FALSE]   \* this call: the first recomposition was accepted

NoRow == [pc |-> "off", pass |-> "main", stop |-> FALSE, raising |-> FALSE,
          verifier |-> FALSE, remove_bg |-> FALSE, cache_on |-> FALSE,
          recompose_without_bg |-> FALSE, recompose_simpler_text |-> FALSE,
          max_recompose_attempts |-> 0,
          dlq_retries |-> 0,
          meta |-> NewMeta, dl |-> NoDl, bg_attempted |-> FALSE, use_orig |-> TRUE,
          attempt |-> 0,
          stats |-> ZeroRowStats, prog |-> reset,
          df |-> FALSE, out |-> "none", tmp_img |-> FALSE, tmp_nobg |-> FALSE,
          cached |-> FALSE, hashed |-> FALSE,
          h |-> ZeroRowHist]

RowEnv == <<pvars, now, bvars, lvars, dvars, svars, rng, sd, pm, ic, br, pl, tb, wr, st>>

\* _run_single lines 3057-3061: the shutdown check of the loop, then the call;
\* meta is created at line 2600
RowCall ==
    /\ rw.pc = "idle"
    /\ IF rw.stop
       THEN rw' = [rw EXCEPT !.pc = IF rw.pass = "main" THEN "dlq" ELSE "ended"]
       ELSE rw' = [rw EXCEPT !.pc = "begin", !.meta = NewMeta, !.dl = NoDl,
                             !.bg_attempted = FALSE, !.use_orig = TRUE, !.attempt = 0,
                             !.h.rejected = FALSE, !.h.accepted = FALSE,
                             !.h.first = FALSE]
    /\ UNCHANGED RowEnv

\* lines 2602-2641: the short-circuit; else the locals (mkdir can raise, and
\* nothing on the serial path catches it) and the cache check
RowBegin ==
    /\ rw.pc = "begin"
    /\ IF ShortCircuit(rw.stop)
       THEN rw' = [rw EXCEPT !.pc = "returned", !.meta.skipped = TRUE]
       ELSE \E crash \in BOOLEAN :
            IF crash THEN rw' = [rw EXCEPT !.pc = "ended"]
            ELSE IF rw.cache_on /\ rw.cached /\ rw.tmp_img
            THEN rw' = [rw EXCEPT !.pc = "check3", !.meta.source = "cache",
                                  !.stats.cache_hits = @ + 1]
            ELSE rw' = [rw EXCEPT !.pc = "search"]
    /\ UNCHANGED RowEnv

\* lines 2643-2656: second shutdown check, search, download_best, verified
RowSearch(results) ==
    /\ rw.pc = "search"
    /\ (rw.stop \/ rw.raising) => results = <<>>
    /\ IF rw.stop
       THEN rw' = [rw EXCEPT !.pc = "finally", !.meta.skipped = TRUE]
       ELSE LET res == safe_search(rw.raising, results)
                dl  == download_best(res, rw.verifier)
                one == rw.pass = "main"
            IN rw' = [rw EXCEPT
                         !.pc = "fallback",
                         !.dl = dl,
                         !.stats.verified = IF dl.verification THEN @ + 1 ELSE @,
                         !.tmp_img = dl.success,
                         !.hashed = @ \/ \E k \in 1 .. Len(res) : res[k] # "bad",
                         !.h.searched1 = @ \/ one,
                         !.h.raised1 = @ \/ (one /\ rw.raising),
                         !.h.answered1 = @ \/ (one /\ ~rw.raising),
                         !.h.rejected = RejectsAll(res, rw.verifier),
                         !.h.accepted = dl.success]
    /\ UNCHANGED RowEnv

\* lines 2658-2675: a fallback query from another column of the row (fb: the
\* row has one that differs from the query)
RowFallback(fb, results) ==
    /\ rw.pc = "fallback"
    /\ (rw.dl.success \/ rw.stop) => ~fb
    /\ (~fb \/ rw.raising) => results = <<>>
    /\ IF ~fb
       THEN rw' = [rw EXCEPT !.pc = "source"]
       ELSE LET res == safe_search(rw.raising, results)
                dl  == download_best(res, rw.verifier)
                one == rw.pass = "main"
            IN rw' = [rw EXCEPT
                         !.pc = "source",
                         !.dl = dl,
                         !.tmp_img = dl.success,
                         !.hashed = @ \/ \E k \in 1 .. Len(res) : res[k] # "bad",
                         !.h.raised1 = @ \/ (one /\ rw.raising),
                         !.h.answered1 = @ \/ (one /\ ~rw.raising),
                         !.h.rejected = @ \/ RejectsAll(res, rw.verifier),
                         !.h.accepted = dl.success]
    /\ UNCHANGED RowEnv

\* lines 2677-2694: placeholder, or the downloaded image and the cache entry
RowSource ==
    /\ rw.pc = "source"
    /\ IF NeedsPlaceholder(rw.dl)
       THEN rw' = [rw EXCEPT !.pc = "check3",
                             !.stats.placeholder = @ + 1,
                             !.tmp_img = TRUE,
                             !.meta.source = "placeholder"]
       ELSE rw' = [rw EXCEPT !.pc = "check3",
                             !.meta.source = "engine",
                             !.cached = @ \/ rw.cache_on]
    /\ UNCHANGED RowEnv

\* lines 2696-2698: third shutdown check
RowCheck ==
    /\ rw.pc = "check3"
    /\ IF rw.stop
       THEN rw' = [rw EXCEPT !.pc = "finally", !.meta.skipped = TRUE]
       ELSE rw' = [rw EXCEPT !.pc = "bg"]
    /\ UNCHANGED RowEnv

\* lines 2703-2745 and 2796-2799: background removal (bgok: the cut-out is
\* used), compose (ok: it does not raise), the condition of stage 2
RowCompose(bgok, ok) ==
    /\ rw.pc = "bg"
    /\ ~rw.remove_bg => ~bgok
    /\ IF ok
       THEN rw' = [rw EXCEPT
                      !.bg_attempted = rw.remove_bg,
                      !.use_orig = ~bgok,
                      !.tmp_nobg = bgok,
                      !.out = "initial",
                      !.pc = IF rw.verifier /\ rw.meta.source # "placeholder"
                             THEN "stage2" ELSE "update"]
       ELSE rw' = [rw EXCEPT
                      !.bg_attempted = rw.remove_bg,
                      !.use_orig = ~bgok,
                      !.tmp_nobg = bgok,
                      !.meta.error = TRUE,
                      !.stats.failed = @ + 1,
                      !.h.error1 = @ \/ rw.pass = "main",
                      !.pc = "finally"]
    /\ UNCHANGED RowEnv

\* lines 2746-2768: post-compose verification of the first composition
RowStage2(accepted) ==
    /\ rw.pc = "stage2"
    /\ rw' = [rw EXCEPT
                 !.stats.post_verified = @ + 1,
                 !.meta.stage2_accepted = IF accepted THEN "true" ELSE "false",
                 !.stats.post_verify_fails = IF accepted THEN @ ELSE @ + 1,
                 !.attempt = 0,
                 !.pc = IF accepted THEN "update" ELSE "recompose"]
    /\ UNCHANGED RowEnv

\* _recompose lines 2837-2885 and its caller, lines 2770-2783: one turn of the
\* loop (ok: compose does not raise; accepted: the verifier accepts), or the
\* end of the loop
RowRecompose(ok, accepted) ==
    /\ rw.pc = "recompose"
    /\ LET a == rw.attempt
           without_bg == a = 0 /\ rw.recompose_without_bg /\ rw.bg_attempted
           simpler == ~without_bg /\ a = 1 /\ rw.recompose_simpler_text
       IN /\ (~AttemptsLeft(a, rw.max_recompose_attempts) \/ ~(without_bg \/ simpler)) => ~ok
          /\ ~ok => ~accepted
          /\ IF ~AttemptsLeft(a, rw.max_recompose_attempts)
             THEN rw' = [rw EXCEPT !.pc = "update", !.meta.recomposed = "false"]
             ELSE IF ~ok
             THEN rw' = [rw EXCEPT !.attempt = a + 1]
             ELSE IF ~accepted
             THEN rw' = [rw EXCEPT !.attempt = a + 1,
                                   !.out = IF without_bg THEN "without_bg"
                                           ELSE "simpler_text"]
             ELSE rw' = [rw EXCEPT !.pc = "update",
                                   !.out = IF without_bg THEN "without_bg"
                                           ELSE "simpler_text",
                                   !.meta.recomposed = "true",
                                   !.meta.recompose_reason = "post_verify_fail",
                                   !.h.first = without_bg]
    /\ UNCHANGED RowEnv

\* lines 2788-2794: the row table, success
RowUpdate ==
    /\ rw.pc = "update"
    /\ rw' = [rw EXCEPT !.pc = "finally", !.df = TRUE, !.meta.success = TRUE,
                        !.stats.success = @ + 1]
    /\ UNCHANGED RowEnv

\* lines 2801-2812: finally, return
RowFinally ==
    /\ rw.pc = "finally"
    /\ rw' = [rw EXCEPT !.pc = "returned", !.tmp_img = FALSE, !.tmp_nobg = FALSE,
                        !.stats.total = @ + 1]
    /\ UNCHANGED RowEnv

\* _run_single lines 3063-3076: the result is recorded; the loop ends
RowRecord ==
    /\ rw.pc = "returned"
    /\ rw' = [rw EXCEPT !.prog = RecordResult(rw.prog, TheRow, rw.meta),
                        !.h.skipped1 = @ \/ (rw.pass = "main" /\ rw.meta.skipped),
                        !.pc = IF rw.pass = "main" THEN "dlq" ELSE "ended"]
    /\ UNCHANGED RowEnv

\* run() lines 3123-3129 (enable_dlq on): the dead-letter pass
RowDlq ==
    /\ rw.pc = "dlq"
    /\ IF ~rw.stop /\ get_dead_letters(rw.prog, rw.dlq_retries) # <<>>
       THEN rw' = [rw EXCEPT !.pc = "idle", !.pass = "dlq",
                             !.stats.dlq_retries = @ + 1]
       ELSE rw' = [rw EXCEPT !.pc = "ended"]
    /\ UNCHANGED RowEnv

\* the shutdown event is set
RowTrip ==
    /\ rw.pc \notin {"off", "ended"}
    /\ ~rw.stop
    /\ rw' = [rw EXCEPT !.stop = TRUE]
    /\ UNCHANGED RowEnv

\* the providers, all raising so far, answer again
Recover ==
    /\ rw.pc \notin {"off", "ended"}
    /\ rw.raising
    /\ rw' = [rw EXCEPT !.raising = FALSE]
    /\ UNCHANGED RowEnv

RowParked == rw = NoRow

InitRow ==
    \E raising \in BOOLEAN, verifier \in BOOLEAN, remove_bg \in BOOLEAN,
       cache_on \in BOOLEAN, without_bg \in BOOLEAN, simpler \in BOOLEAN,
       attempts \in 1 .. MaxRecompose, retries \in 1 .. MaxDlqRetries :
        rw = [NoRow EXCEPT !.pc = "idle", !.raising = raising, !.verifier = verifier,
                           !.remove_bg = remove_bg, !.cache_on = cache_on,
                           !.recompose_without_bg = without_bg,
                           !.recompose_simpler_text = simpler,
                           !.max_recompose_attempts = attempts,
                           !.dlq_retries = retries]

(***************************************************************************)
(* The progress store on its own (core/progress.py): any sequence of       *)
(* mark_done, mark_failed, reset and get_dead_letters calls on one         *)
(* ProgressManager, as the pipeline's runs make them over time.            *)
(***************************************************************************)
\* calls made on the store in one behaviour
MaxOps == 5

\* what a caller passes as meta: the source of the image, whether an error text is set
Sources == {"search", "placeholder"}

PmEnv == <<pvars, now, bvars, lvars, dvars, svars, rng, sd, rw, ic, br, pl, tb, wr, st>>

\* pm.streak[i]: mark_failed calls on row i since it last was absent or done
\* pm.last: the last call; pm.dead: what the last get_dead_letters returned
NewStore(max_retries) ==
    [table |-> reset, max_retries |-> max_retries, ops |-> 0,
     last |-> [op |-> "none", row |-> -1, was |-> AbsentRecord],
     streak |-> [i \in Rows |-> 0], dead |-> <<>>]

NoStore == NewStore(0)

StoreParked == pm = NoStore

StoreMarkDone(i, src) ==
    /\ pm.ops < MaxOps
    /\ pm' = [pm EXCEPT !.table = mark_done(pm.table, i, [source |-> src]),
                        !.ops = @ + 1,
                        !.last = [op |-> "mark_done", row |-> i, was |-> pm.table[i]],
                        !.streak[i] = 0]
    /\ UNCHANGED PmEnv

StoreMarkFailed(i, err) ==
    /\ pm.ops < MaxOps
    /\ pm' = [pm EXCEPT !.table = mark_failed(pm.table, i, [error |-> err]),
                        !.ops = @ + 1,
                        !.last = [op |-> "mark_failed", row |-> i, was |-> pm.table[i]],
                        !.streak[i] = @ + 1]
    /\ UNCHANGED PmEnv

StoreReset ==
    /\ pm.ops < MaxOps
    /\ pm' = [pm EXCEPT !.table = reset,
                        !.ops = @ + 1,
                        !.last = [op |-> "reset", row |-> -1, was |-> AbsentRecord],
                        !.streak = [i \in Rows |-> 0]]
    /\ UNCHANGED PmEnv

StoreDeadLetters ==
    /\ pm.ops < MaxOps
    /\ pm' = [pm EXCEPT !.ops = @ + 1,
                        !.last = [op |-> "get_dead_letters", row |-> -1,
                                  was |-> AbsentRecord],
                        !.dead = get_dead_letters(pm.table, pm.max_retries)]
    /\ UNCHANGED PmEnv

InitStore == \E m \in 0 .. MaxDlqRetries : pm = NewStore(m)

(***************************************************************************)
(* ImageCache (imaging/cache.py): the image_cache table under put and get, *)
(* with the files its rows point to.  A query is a sequence of characters; *)
(* at most one row per query hash, kept as a sequence of length 0 or 1.    *)
(***************************************************************************)
\* the longest query text, and the calls made in one behaviour
MaxQueryLen == 2
MaxCacheOps == 4

Chars == {"a", "A", " "}

QueryTexts == UNION {[1 .. n -> Chars] : n \in 1 .. MaxQueryLen}

\* str.lower()
lower(q) == [k \in 1 .. Len(q) |-> IF q[k] = "A" THEN "a" ELSE q[k]]

\* str.split(): the maximal runs of non-blank characters, in order
RECURSIVE split(_)
split(q) ==
    IF q = <<>> THEN <<>>
    ELSE IF Head(q) = " " THEN split(Tail(q))
    ELSE LET rest == split(Tail(q))
         IN IF Len(q) > 1 /\ q[2] # " "
            THEN <<(<<Head(q)>> \o Head(rest))>> \o Tail(rest)
            ELSE <<(<<Head(q)>>)>> \o rest

\* " ".join(words)
RECURSIVE join(_)
join(words) ==
    IF words = <<>> THEN <<>>
    ELSE IF Len(words) = 1 THEN Head(words)
    ELSE Head(words) \o <<" ">> \o join(Tail(words))

\* the digest is taken to be injective: the normalised text stands for it
_hash_query(query) == join(split(lower(query)))

QueryHashes == {_hash_query(q) : q \in QueryTexts}

\* the file_path and source_engine a caller passes to put (the other columns follow them)
PathChoices == {"", "f1"}

Engines == {"google", "bing"}

CacheValues == [file_path : PathChoices, source_engine : Engines]

IcEnv == <<pvars, now, bvars, lvars, dvars, svars, rng, sd, rw, pm, br, pl, tb, wr, st>>

\* ic.disk: the paths at which a file exists; ic.ret: what the last get returned;
\* ic.last, ic.prev: the last two calls
NoCall == [op |-> "none", qh |-> <<>>, value |-> [file_path |-> "", source_engine |-> ""]]

NewCache ==
    [table |-> [h \in QueryHashes |-> <<>>], disk |-> {}, ret |-> <<>>,
     last |-> NoCall, prev |-> NoCall, ops |-> 0]

CacheParked == ic = NewCache

\* INSERT OR REPLACE ... hit_count 0
put(query, value) ==
    LET qh == _hash_query(query)
    IN /\ ic.ops < MaxCacheOps
       /\ ic' = [ic EXCEPT !.table[qh] = <<[value |-> value, hit_count |-> 0]>>,
                           !.ops = @ + 1,
                           !.prev = ic.last,
                           !.last = [op |-> "put", qh |-> qh, value |-> value]]
       /\ UNCHANGED IcEnv

\* the row read by the SELECT is what is returned; the UPDATE comes after it
get(query) ==
    LET qh  == _hash_query(query)
        row == ic.table[qh]
        fp  == IF row = <<>> THEN "" ELSE row[1].value.file_path
        called == [op |-> "get", qh |-> qh, value |-> NoCall.value]
    IN /\ ic.ops < MaxCacheOps
       /\ IF row = <<>>
          THEN ic' = [ic EXCEPT !.ret = <<>>, !.ops = @ + 1,
                                !.prev = ic.last, !.last = called]
          ELSE IF fp # "" /\ fp \notin ic.disk
          THEN ic' = [ic EXCEPT !.table[qh] = <<>>, !.ret = <<>>, !.ops = @ + 1,
                                !.prev = ic.last, !.last = called]
          ELSE ic' = [ic EXCEPT !.table[qh] = <<[row[1] EXCEPT !.hit_count = @ + 1]>>,
                                !.ret = row, !.ops = @ + 1,
                                !.prev = ic.last, !.last = called]
       /\ UNCHANGED IcEnv

\* the downloader writes an image file / the temp directory is cleaned
FileWritten(p) ==
    /\ ic.ops < MaxCacheOps
    /\ p \notin ic.disk
    /\ ic' = [ic EXCEPT !.disk = @ \cup {p}, !.ops = @ + 1, !.prev = ic.last,
                        !.last = [NoCall EXCEPT !.op = "write"]]
    /\ UNCHANGED IcEnv

FileRemoved(p) ==
    /\ ic.ops < MaxCacheOps
    /\ p \in ic.disk
    /\ ic' = [ic EXCEPT !.disk = @ \ {p}, !.ops = @ + 1, !.prev = ic.last,
                        !.last = [NoCall EXCEPT !.op = "remove"]]
    /\ UNCHANGED IcEnv

(***************************************************************************)
(* SearchManager.search (search/manager.py): one call, the engines of      *)
(* cfg.priority asked in turn.  What safe_search hands back (the engine's  *)
(* hits, or [] when the breaker is open or the engine raised) is any list  *)
(* of results of the engine.                                               *)
(***************************************************************************)
\* the longest list one engine returns, and the largest threshold and max_results
MaxBatch == 2
MaxWanted == 3

Urls == {"u1", "u2", "u3"}

\* cfg.priority: the default list, a shorter one in another order, a single engine
PriorityChoices == {<<"google", "duckduckgo", "bing">>, <<"bing", "google">>,
                    <<"duckduckgo">>}

\* the lists of URLs an engine can find
UrlLists == UNION {[1 .. n -> Urls] : n \in 0 .. MaxBatch}

\* ImageResult(url, source): the hits of the engine called name
ResultsOf(name, urls) == [k \in 1 .. Len(urls) |-> [url |-> urls[k], source |-> name]]

\* variant: every result is appended, seen or not
RECURSIVE merge_all(_, _)
merge_all(acc, hits) ==
    IF hits = <<>> THEN acc
    ELSE merge_all([combined |-> Append(acc.combined, Head(hits)),
                    seen_urls |-> acc.seen_urls \cup {Head(hits).url}], Tail(hits))

\* for r in batch: if r.url not in seen_urls: seen_urls.add(r.url); combined.append(r)
RECURSIVE merge(_, _)
merge(acc, hits) ==
    IF hits = <<>> THEN acc
    ELSE IF Head(hits).url \in acc.seen_urls THEN merge(acc, Tail(hits))
    ELSE merge([combined |-> Append(acc.combined, Head(hits)),
                seen_urls |-> acc.seen_urls \cup {Head(hits).url}], Tail(hits))

\* variant: the loop never breaks
EnoughNever(combined, min_results_fallback) == FALSE

\* len(combined) >= self.cfg.min_results_fallback
Enough(combined, min_results_fallback) == Len(combined) >= min_results_fallback

\* combined[:max_results], max_results >= 0
Truncated(combined, max_results) == SubSeq(combined, 1, Min(max_results, Len(combined)))

BrEnv == <<pvars, now, bvars, lvars, dvars, svars, rng, sd, rw, pm, ic, pl, tb, wr, st>>

\* br.called, br.arrivals: history, the engines asked and every result handed back,
\* in order; br.upto[j]: how many results had arrived before the j-th engine was asked
NewSearch(priority, threshold, max_results) ==
    [pc |-> "loop", priority |-> priority, min_results_fallback |-> threshold,
     max_results |-> max_results, k |-> 1,
     combined |-> <<>>, seen_urls |-> {}, ret |-> <<>>,
     called |-> <<>>, arrivals |-> <<>>, upto |-> <<>>]

NoSearch == [NewSearch(<<>>, 0, 0) EXCEPT !.pc = "idle"]

SearchParked == br = NoSearch

\* one turn of the for loop: the engine is asked, its batch merged, the break tested
SearchEngine(urls) ==
    /\ br.pc = "loop"
    /\ br.k <= Len(br.priority)
    /\ LET name  == br.priority[br.k]
           hits == ResultsOf(name, urls)
           acc   == merge([combined |-> br.combined, seen_urls |-> br.seen_urls], hits)
       IN br' = [br EXCEPT !.combined = acc.combined,
                           !.seen_urls = acc.seen_urls,
                           !.called = Append(@, name),
                           !.upto = Append(@, Len(br.arrivals)),
                           !.arrivals = @ \o hits,
                           !.k = @ + 1,
                           !.pc = IF Enough(acc.combined, br.min_results_fallback)
                                  THEN "return" ELSE "loop"]
    /\ UNCHANGED BrEnv

\* the priority list is used up
SearchExhausted ==
    /\ br.pc = "loop"
    /\ br.k > Len(br.priority)
    /\ br' = [br EXCEPT !.pc = "return"]
    /\ UNCHANGED BrEnv

SearchReturn ==
    /\ br.pc = "return"
    /\ br' = [br EXCEPT !.pc = "done", !.ret = Truncated(br.combined, br.max_results)]
    /\ UNCHANGED BrEnv

InitSearch ==
    \E priority \in PriorityChoices, threshold \in 0 .. MaxWanted,
       max_results \in 0 .. MaxWanted :
        br = NewSearch(priority, threshold, max_results)

(***************************************************************************)
(* The two dispatchers side by side (core/pipeline.py): _run_single and    *)
(* _run_threaded are each given the same list of rows, each on a progress  *)
(* store of its own, and every row has one outcome that both see.  No      *)
(* signal arrives.  The clock counts ticks; worker_timeout is in ticks.    *)
(***************************************************************************)
MaxPoolClock == 3

\* PipelineConfig.worker_timeout
worker_timeout == 1

\* what _process(i) does: returns success, returns an error, raises ahead of its
\* try block, or never returns
RowOutcomes == {"ok", "error", "crash", "hang"}

\* the finished call / future of a row whose outcome is o
ResultOf(o) ==
    [NoTask EXCEPT !.pc = "done",
                   !.success = (o = "ok"),
                   !.source = IF o = "ok" THEN "engine" ELSE "",
                   !.error = (o = "error"),
                   !.raised = (o = "crash")]

PlEnv == <<pvars, now, bvars, lvars, dvars, svars, rng, sd, rw, pm, ic, br, tb, wr, st>>

\* pl.single: _run_single; pl.pool: _run_threaded; pl.started[i]: the tick at
\* which the pool began row i; pl.late[i]: history, a polling cycle saw row i
\* unfinished after more than worker_timeout
NewDispatch(out, workers) ==
    [out |-> out, clock |-> 0, batch |-> SortedSeq(Rows), max_workers |-> workers,
     single |-> [pc |-> "loop", pos |-> 1, prog |-> reset],
     pool |-> [pc |-> "submit", pos |-> 1, pending |-> <<>>, prog |-> reset, failed |-> 0,
               task |-> [i \in Rows |-> NoTask]],
     started |-> [i \in Rows |-> 0],
     late |-> [i \in Rows |-> FALSE]]

NoDispatch ==
    [NewDispatch([i \in Rows |-> "ok"], 2) EXCEPT !.single.pc = "idle", !.pool.pc = "idle"]

DispatchParked == pl = NoDispatch

\* _run_single lines 3057-3061: the next row is processed, or the loop is over
SerialStep ==
    /\ pl.single.pc = "loop"
    /\ pl' = [pl EXCEPT !.single.pc = IF pl.single.pos > Len(pl.batch) THEN "ended"
                                      ELSE "call"]
    /\ UNCHANGED PlEnv

\* _run_single lines 3061-3078: _process returned and the result is recorded, or
\* it raised and the exception leaves _run_single and run()
SerialResult ==
    /\ pl.single.pc = "call"
    /\ LET i == pl.batch[pl.single.pos]
           t == ResultOf(pl.out[i])
       IN /\ pl.out[i] # "hang"
          /\ pl' = IF t.raised
                   THEN [pl EXCEPT !.single.pc = "ended"]
                   ELSE [pl EXCEPT !.single.prog = RecordResult(@, i, t),
                                   !.single.pos = @ + 1,
                                   !.single.pc = "loop"]
    /\ UNCHANGED PlEnv

\* _run_threaded lines 2998-3002
PoolSubmit ==
    /\ pl.pool.pc = "submit"
    /\ pl' = IF pl.pool.pos > Len(pl.batch)
             THEN [pl EXCEPT !.pool.pc = "poll"]
             ELSE [pl EXCEPT !.pool.task[pl.batch[pl.pool.pos]] =
                                 [NoTask EXCEPT !.pc = "queued"],
                             !.pool.pending = Append(@, pl.batch[pl.pool.pos]),
                             !.pool.pos = @ + 1]
    /\ UNCHANGED PlEnv

\* a pool thread takes the oldest queued row
PoolStart(i) ==
    /\ pl.pool.task[i].pc = "queued"
    /\ Cardinality(Running(pl.pool.task)) < pl.max_workers
    /\ \A j \in Rows : pl.pool.task[j].pc = "queued" => i <= j
    /\ pl' = [pl EXCEPT !.pool.task[i].pc = "fetch", !.started[i] = pl.clock]
    /\ UNCHANGED PlEnv

\* _process comes to its end on the pool thread
PoolFinish(i) ==
    /\ pl.pool.task[i].pc = "fetch"
    /\ pl.out[i] # "hang"
    /\ pl' = [pl EXCEPT !.pool.task[i] = ResultOf(pl.out[i])]
    /\ UNCHANGED PlEnv

\* lines 3004-3008: while pending; no signal arrives
PoolPoll ==
    /\ pl.pool.pc = "poll"
    /\ pl' = [pl EXCEPT !.pool.pc = IF pl.pool.pending = <<>> THEN "ended" ELSE "drain"]
    /\ UNCHANGED PlEnv

\* lines 3010-3044: the finished futures are recorded; the others stay in pending
\* however long they have been running
PoolDrain ==
    /\ pl.pool.pc = "drain"
    /\ LET ds == DoneFutures(pl.pool.task, pl.pool.pending)
       IN pl' = [pl EXCEPT
                    !.pool.prog = DrainProgress(@, pl.pool.task, ds),
                    !.pool.failed = @ + RaisedCount(pl.pool.task, ds),
                    !.pool.pending = SelectSeq(@, LAMBDA i : pl.pool.task[i].pc # "done"),
                    !.pool.pc = "poll",
                    !.late = [i \in Rows |->
                                 \/ pl.late[i]
                                 \/ /\ pl.pool.task[i].pc = "fetch"
                                    /\ pl.clock - pl.started[i] > worker_timeout]]
    /\ UNCHANGED PlEnv

PoolTick ==
    /\ pl.clock < MaxPoolClock
    /\ pl' = [pl EXCEPT !.clock = @ + 1]
    /\ UNCHANGED PlEnv

InitDispatch ==
    \E out \in [Rows -> RowOutcomes], workers \in {2, 3} : pl = NewDispatch(out, workers)

(***************************************************************************)
(* The row table (self.df) and the checkpoint counter of _process          *)
(* (core/pipeline.py): the pool's workers read their row, write its        *)
(* image_path under _df_lock, count the completion in the finally block    *)
(* and save the CSV on every csv_save_interval-th count.                   *)
(***************************************************************************)
NTableWorkers == 2
MaxCompletions == 4

TableWorkers == 1 .. NTableWorkers

\* cfg.pipeline.csv_save_interval
SaveIntervals == {1, 2, 3}

\* variant: every completion saves
DueAlways(count, csv_save_interval) == TRUE

\* line 2808: self._csv_cnt.increment() % csv_save_interval == 0
Due(count, csv_save_interval) == count % csv_save_interval = 0

TbEnv == <<pvars, now, bvars, lvars, dvars, svars, rng, sd, rw, pm, ic, br, pl, wr, st>>

\* tb.lock: the holder of _df_lock (0: free); tb.csv_cnt: AtomicCounter._value;
\* tb.got[w]: what increment() returned to worker w; history: tb.begun, the
\* _process calls begun; tb.given[n], how many calls were returned the count n;
\* tb.saves, the _save_csv calls made; tb.written, the image_path cells set
NewTable(interval) ==
    [csv_save_interval |-> interval, lock |-> 0, csv_cnt |-> 0,
     pc |-> [w \in TableWorkers |-> "idle"],
     got |-> [w \in TableWorkers |-> 0],
     begun |-> 0,
     given |-> [n \in 1 .. (MaxCompletions + 1) |-> 0],
     saves |-> 0, written |-> 0]

NoTable == NewTable(1)

TableParked == tb = NoTable

\* line 2606: row = self.df.iloc[idx], no lock taken
TableRead(w) ==
    /\ tb.pc[w] = "idle"
    /\ tb.begun < MaxCompletions
    /\ tb' = [tb EXCEPT !.pc[w] = "reading", !.begun = @ + 1]
    /\ UNCHANGED TbEnv

\* the row is read; search, download and compose follow
TableReadEnd(w) ==
    /\ tb.pc[w] = "reading"
    /\ tb' = [tb EXCEPT !.pc[w] = "work"]
    /\ UNCHANGED TbEnv

\* lines 2789-2790: with self._df_lock; or the row raised or was skipped before
TableLock(w) ==
    /\ tb.pc[w] = "work"
    /\ \/ /\ tb.lock = 0
          /\ tb' = [tb EXCEPT !.pc[w] = "writing", !.lock = w]
       \/ tb' = [tb EXCEPT !.pc[w] = "finally"]
    /\ UNCHANGED TbEnv

\* self.df.at[idx, "image_path"] = rel, and the lock is released
TableWrite(w) ==
    /\ tb.pc[w] = "writing"
    /\ tb' = [tb EXCEPT !.pc[w] = "finally", !.lock = 0, !.written = @ + 1]
    /\ UNCHANGED TbEnv

\* line 2808: AtomicCounter.increment() adds and returns under the counter's lock
TableCount(w) ==
    /\ tb.pc[w] = "finally"
    /\ tb' = [tb EXCEPT !.csv_cnt = @ + 1,
                        !.got[w] = tb.csv_cnt + 1,
                        !.given[tb.csv_cnt + 1] = @ + 1,
                        !.pc[w] = "counted"]
    /\ UNCHANGED TbEnv

\* ... % csv_save_interval == 0
TableDue(w) ==
    /\ tb.pc[w] = "counted"
    /\ tb' = [tb EXCEPT !.pc[w] = IF Due(tb.got[w], tb.csv_save_interval)
                                  THEN "save" ELSE "idle"]
    /\ UNCHANGED TbEnv

\* _save_csv lines 2420-2421: with self._df_lock
TableSaveLock(w) ==
    /\ tb.pc[w] = "save"
    /\ tb.lock = 0
    /\ tb' = [tb EXCEPT !.pc[w] = "saving", !.lock = w]
    /\ UNCHANGED TbEnv

\* _save_csv lines 2422-2428: to_csv to the .tmp file, replace; errors are logged
TableSave(w) ==
    /\ tb.pc[w] = "saving"
    /\ tb' = [tb EXCEPT !.pc[w] = "idle", !.lock = 0, !.saves = @ + 1]
    /\ UNCHANGED TbEnv

InitTable == \E interval \in SaveIntervals : tb = NewTable(interval)

(***************************************************************************)
(* The two dispatchers recording the rows of a batch when a write to the   *)
(* progress store can raise (_run_single lines 3051-3078, the result loop  *)
(* of _run_threaded lines 3019-3044).  mark_done and mark_failed           *)
(* (progress.py 148-188) run an INSERT and a commit on the sqlite          *)
(* connection; either raises sqlite3.Error, and then nothing is written.   *)
(* The main thread records the rows one after the other in both            *)
(* dispatchers.  wr.faults is the number of writes that may still raise.   *)
(*   pc: "next"    before the next row of the batch                        *)
(*       "record"  _process returned meta, before the write                *)
(*       "except"  in "except Exception" of _run_threaded                  *)
(*       "raised"  the exception left the dispatcher and run()             *)
(*       "end"     the batch is finished                                   *)
(* stats holds, for every row, how often each counter was incremented for  *)
(* it.                                                                     *)
(***************************************************************************)
MaxFaults == 2

\* what _process returns: success, an error caught by its except branch,
\* or skipped
ProcessOutcomes == {"success", "failed", "skipped"}

WrEnv == <<pvars, now, bvars, lvars, dvars, svars, rng, sd, rw, pm, ic, br, pl, tb, st>>

ZeroCounts == [i \in Rows |-> 0]

NewWrite(max_workers, faults) ==
    [max_workers |-> max_workers, faults |-> faults, pc |-> "next", pos |-> 1,
     outcome |-> [i \in Rows |-> "none"], progress |-> reset,
     stats |-> [success |-> ZeroCounts, failed |-> ZeroCounts, total |-> ZeroCounts]]

NoWrite == [NewWrite(1, 0) EXCEPT !.pc = "idle"]

WriteParked == wr = NoWrite

\* _process (lines 2792-2807): success or failed is counted once, total in finally
WriteProcess(o) ==
    /\ wr.pc = "next"
    /\ wr.pos <= NRows
    /\ LET idx == wr.pos - 1
       IN wr' = [wr EXCEPT !.pc = "record",
                           !.outcome[idx] = o,
                           !.stats.success[idx] = @ + (IF o = "success" THEN 1 ELSE 0),
                           !.stats.failed[idx] = @ + (IF o = "failed" THEN 1 ELSE 0),
                           !.stats.total[idx] = @ + 1]
    /\ UNCHANGED WrEnv

\* lines 3023-3037 and 3063-3076: mark_done for a success, mark_failed for a row
\* that is not skipped; an exception of the write goes to "except Exception" in
\* _run_threaded and leaves _run_single, which has no handler
WriteResult(raised) ==
    /\ wr.pc = "record"
    /\ raised => (wr.faults > 0 /\ wr.outcome[wr.pos - 1] # "skipped")
    /\ LET idx == wr.pos - 1
           o == wr.outcome[idx]
       IN IF raised
          THEN wr' = [wr EXCEPT !.faults = @ - 1,
                                !.pc = IF wr.max_workers <= 1 THEN "raised"
                                       ELSE "except"]
          ELSE wr' = [wr EXCEPT !.pc = "next", !.pos = @ + 1,
                                !.progress =
                                    IF o = "success"
                                    THEN mark_done(@, idx, [source |-> "engine"])
                                    ELSE IF o = "failed"
                                    THEN mark_failed(@, idx, [error |-> TRUE])
                                    ELSE @]
    /\ UNCHANGED WrEnv

\* lines 3041-3044: mark_failed(idx, {"error": str(exc)}), stats.failed.increment();
\* an exception of this write leaves _run_threaded
WriteExcept(raised) ==
    /\ wr.pc = "except"
    /\ raised => wr.faults > 0
    /\ LET idx == wr.pos - 1
       IN IF raised
          THEN wr' = [wr EXCEPT !.faults = @ - 1, !.pc = "raised"]
          ELSE wr' = [wr EXCEPT !.pc = "next", !.pos = @ + 1,
                                !.progress = mark_failed(@, idx, [error |-> TRUE]),
                                !.stats.failed[idx] = @ + 1]
    /\ UNCHANGED WrEnv

\* the loop over the batch ends
WriteEnd ==
    /\ wr.pc = "next"
    /\ wr.pos > NRows
    /\ wr' = [wr EXCEPT !.pc = "end"]
    /\ UNCHANGED WrEnv

InitWrite ==
    \E w \in WorkerChoices, f \in 0 .. MaxFaults : wr = NewWrite(w, f)

(***************************************************************************)
(* ImageDownloader.download_best (imaging/downloader.py lines 452-579)     *)
(* with the scores of ImageVerifier.verify (imaging/verifier.py lines      *)
(* 1255-1316, 1322-1338).  Scores and thresholds are in hundredths, a      *)
(* combined score in thousandths, so that the weighted mean                *)
(* (clip * 0.6 + blip * 0.4) / 1.0 is the integer clip * 6 + blip * 4.     *)
(* A candidate of the ranked list is a pair of CLIP and BLIP scores, or    *)
(* Bad when it is dropped before verification (no data, a digest seen      *)
(* before, an invalid image).  A candidate is named by its position in     *)
(* the list.                                                               *)
(*   pc: "loop"      in "for r in ranked", before candidate st.pos         *)
(*       "returned"  download_best returned st.ret                         *)
(* st.was_best is the set of candidates that were best_candidate at some   *)
(* time.                                                                   *)
(***************************************************************************)
MaxRanked == 3

\* VerificationConfig (config/settings.py lines 1032-1049), in hundredths;
\* the weights in tenths
clip_accept_threshold == 25
clip_reject_threshold == 15
combined_accept == 25
combined_reject == 12
clip_weight == 6
blip_weight == 4

ClipChoices == {5, 13, 20, 30}
BlipChoices == {0, 40}
Scored == [ok : {TRUE}, clip : ClipChoices, blip : BlipChoices]
Bad == [ok |-> FALSE, clip |-> 0, blip |-> 0]
RankedLists == SeqsUpTo(Scored \cup {Bad}, MaxRanked)

StEnv == <<pvars, now, bvars, lvars, dvars, svars, rng, sd, rw, pm, ic, br, pl, tb, wr>>

\* _verify_with_thresholds with the Stage-1 thresholds: CLIP auto-accept, CLIP
\* auto-reject (accepted stays False, combined_score = clip_score), else the
\* weighted mean against combined_accept
verify(clip, blip) ==
    IF clip >= clip_accept_threshold
    THEN [accepted |-> TRUE, combined_score |-> 10 * clip, reason |-> "clip_high"]
    ELSE IF clip < clip_reject_threshold
    THEN [accepted |-> FALSE, combined_score |-> 10 * clip, reason |-> "clip_low"]
    ELSE LET combined == clip * clip_weight + blip * blip_weight
         IN [accepted |-> combined >= 10 * combined_accept,
             combined_score |-> combined, reason |-> "combined"]

\* DownloadResult: success and the candidate that was saved (0: none)
NoResult == [success |-> FALSE, k |-> 0]

\* lines 452-459: best_candidate = None, best_score = -1.0, verified_count = 0
NewStage(ranked, max_verify_candidates, min_candidates_before_best) ==
    [ranked |-> ranked, max_verify_candidates |-> max_verify_candidates,
     min_candidates_before_best |-> min_candidates_before_best,
     pc |-> "loop", pos |-> 1, verified_count |-> 0,
     best_candidate |-> 0, best_score |-> -1000,
     ret |-> NoResult, was_best |-> {}]

NoStage == [NewStage(<<>>, 0, 0) EXCEPT !.pc = "idle"]

StageParked == st = NoStage

\* the loop goes on: no break at line 463 and a candidate is left
StageInLoop ==
    /\ st.pc = "loop"
    /\ st.verified_count < st.max_verify_candidates
    /\ st.pos <= Len(st.ranked)

\* lines 470-490: the candidate is dropped before verification
StageSkip ==
    /\ StageInLoop
    /\ ~st.ranked[st.pos].ok
    /\ st' = [st EXCEPT !.pos = @ + 1]
    /\ UNCHANGED StEnv

\* lines 494-546: verify, track the best candidate, return the accepted candidate,
\* or the best one after min_candidates_before_best when its score is above
\* combined_reject
StageVerify ==
    /\ StageInLoop
    /\ st.ranked[st.pos].ok
    /\ LET k == st.pos
           verify_result == verify(st.ranked[k].clip, st.ranked[k].blip)
           verified_count == st.verified_count + 1
           better == verify_result.combined_score > st.best_score
           best_score == IF better THEN verify_result.combined_score ELSE st.best_score
           best_candidate == IF better THEN k ELSE st.best_candidate
           tracked == [st EXCEPT !.verified_count = verified_count,
                                 !.best_score = best_score,
                                 !.best_candidate = best_candidate,
                                 !.was_best = IF better THEN @ \cup {k} ELSE @,
                                 !.pos = k + 1]
       IN IF verify_result.accepted
          THEN st' = [tracked EXCEPT !.pc = "returned",
                                     !.ret = [success |-> TRUE, k |-> k]]
          ELSE IF verified_count < st.min_candidates_before_best
          THEN st' = tracked
          ELSE IF best_score > 10 * combined_reject
          THEN st' = [tracked EXCEPT !.pc = "returned",
                                     !.ret = [success |-> TRUE, k |-> best_candidate]]
          ELSE st' = tracked
    /\ UNCHANGED StEnv

\* lines 555-579: after the loop, the best candidate when its score is positive and
\* at least combined_reject, else DownloadResult(False)
StageExhausted ==
    /\ st.pc = "loop"
    /\ ~StageInLoop
    /\ st' = [st EXCEPT !.pc = "returned",
                        !.ret = IF /\ st.best_candidate # 0
                                   /\ st.best_score > 0
                                   /\ st.best_score >= 10 * combined_reject
                                THEN [success |-> TRUE, k |-> st.best_candidate]
                                ELSE NoResult]
    /\ UNCHANGED StEnv

InitStage ==
    \E ranked \in RankedLists, v \in 1 .. MaxRanked, b \in 1 .. MaxRanked :
        st = NewStage(ranked, v, b)

(***************************************************************************)
(* Specifications.  Each one runs one part of the program and leaves the   *)
(* variables of the other parts at rest.                                   *)
(***************************************************************************)
ChunkChoices == {1, NRows}

PipelineAtRest(c) ==
    /\ cfg = c
    /\ runNo = 0
    /\ dpc = "idle"
    /\ pass = "main"
    /\ indices = <<>>
    /\ chunkPos = 0
    /\ batch = <<>>
    /\ bpos = 1
    /\ pending = <<>>
    /\ shutdown = FALSE
    /\ prog = reset
    /\ stats = ZeroStats
    /\ task = [i \in Rows |-> NoTask]
    /\ hist = ZeroHist

PipelineParked ==
    PipelineAtRest([resume |-> FALSE, max_workers |-> 1, enable_dlq |-> FALSE,
                    dlq_retries |-> 0, chunk_size |-> 1])

\* the pipeline: AdPipeline.run() started up to MaxRuns times on one progress store
\* (the retry ceiling is read by the dead-letter pass only: with enable_dlq off
\* one value of it stands for all)
Init ==
    /\ \E c \in [resume : {FALSE}, max_workers : WorkerChoices, enable_dlq : BOOLEAN,
                 dlq_retries : 0 .. MaxDlqRetries, chunk_size : ChunkChoices] :
          /\ ~c.enable_dlq => c.dlq_retries = MaxDlqRetries
          /\ PipelineAtRest(c)
    /\ now = 0
    /\ BreakerParked
    /\ LimiterParked
    /\ DedupParked
    /\ SelectParked
    /\ RangeParked
    /\ ShutdownParked
    /\ RowParked
    /\ StoreParked
    /\ CacheParked
    /\ SearchParked
    /\ DispatchParked
    /\ TableParked
    /\ WriteParked
    /\ StageParked

Next ==
    \/ \E resume \in BOOLEAN, rst \in BOOLEAN : StartRun(resume, rst)
    \/ NextChunk
    \/ DeadLetterPass
    \/ RunFinally
    \/ Trip
    \/ SingleStep
    \/ SingleResult
    \/ Submit
    \/ Poll
    \/ PollDrain
    \/ \E i \in Rows : ProcessBegin(i)
    \/ \E i \in Rows : ProcessFetch(i)
    \/ \E i \in Rows : ProcessCheck(i)
    \/ \E i \in Rows : ProcessCompose(i)
    \/ \E i \in Rows : ProcessFinally(i)

Spec == Init /\ [][Next]_vars

\* one run of the pipeline on a new progress store, the retry ceiling also above
\* what one run can use up
InitOnce ==
    /\ \E c \in [resume : {FALSE}, max_workers : WorkerChoices, enable_dlq : BOOLEAN,
                 dlq_retries : 0 .. (MaxDlqRetries + 1), chunk_size : ChunkChoices] :
          PipelineAtRest(c)
    /\ now = 0
    /\ BreakerParked
    /\ LimiterParked
    /\ DedupParked
    /\ SelectParked
    /\ RangeParked
    /\ ShutdownParked
    /\ RowParked
    /\ StoreParked
    /\ CacheParked
    /\ SearchParked
    /\ DispatchParked
    /\ TableParked
    /\ WriteParked
    /\ StageParked

NextOnce ==
    \/ \E resume \in BOOLEAN, rst \in BOOLEAN : runNo = 0 /\ StartRun(resume, rst)
    \/ NextChunk
    \/ DeadLetterPass
    \/ RunFinally
    \/ Trip
    \/ SingleStep
    \/ SingleResult
    \/ Submit
    \/ Poll
    \/ PollDrain
    \/ \E i \in Rows : ProcessBegin(i)
    \/ \E i \in Rows : ProcessFetch(i)
    \/ \E i \in Rows : ProcessCheck(i)
    \/ \E i \in Rows : ProcessCompose(i)
    \/ \E i \in Rows : ProcessFinally(i)

SpecOnce == InitOnce /\ [][NextOnce]_vars

\* one provider's circuit breaker under concurrent safe_search calls
InitBreakerSpec ==
    /\ PipelineParked
    /\ now = 0
    /\ InitBreaker
    /\ LimiterParked
    /\ DedupParked
    /\ SelectParked
    /\ RangeParked
    /\ ShutdownParked
    /\ RowParked
    /\ StoreParked
    /\ CacheParked
    /\ SearchParked
    /\ DispatchParked
    /\ TableParked
    /\ WriteParked
    /\ StageParked

NextBreaker ==
    \/ Tick
    \/ \E w \in Callers : Probe(w)
    \/ \E w \in Callers : CallStart(w)
    \/ \E w \in Callers, outcome \in Outcomes : CallReturn(w, outcome)

SpecBreaker == InitBreakerSpec /\ [][NextBreaker]_vars

\* one provider's rate limiter under concurrent wait() calls; the monotonic
\* clock starts anywhere
ClockStarts == {0, TicksPerSec}

InitLimiterSpec ==
    /\ PipelineParked
    /\ now \in ClockStarts
    /\ BreakerParked
    /\ InitLimiter
    /\ DedupParked
    /\ SelectParked
    /\ RangeParked
    /\ ShutdownParked
    /\ RowParked
    /\ StoreParked
    /\ CacheParked
    /\ SearchParked
    /\ DispatchParked
    /\ TableParked
    /\ WriteParked
    /\ StageParked

NextLimiter ==
    \/ Tick
    \/ \E w \in Waiters : WaitEnter(w)
    \/ \E w \in Waiters : WaitLeave(w)

SpecLimiter == InitLimiterSpec /\ [][NextLimiter]_vars

\* one ThreadSafeSet under concurrent add() calls
InitDedupSpec ==
    /\ PipelineParked
    /\ now = 0
    /\ BreakerParked
    /\ LimiterParked
    /\ DedupParked
    /\ SelectParked
    /\ RangeParked
    /\ ShutdownParked
    /\ RowParked
    /\ StoreParked
    /\ CacheParked
    /\ SearchParked
    /\ DispatchParked
    /\ TableParked
    /\ WriteParked
    /\ StageParked

NextDedup ==
    \/ \E t \in Threads, k \in Keys : AddCall(t, k)
    \/ \E t \in Threads : AddEnter(t)
    \/ \E t \in Threads : AddTest(t)
    \/ \E t \in Threads : AddInsert(t)
    \/ \E t \in Threads : AddExit(t)

SpecDedup == InitDedupSpec /\ [][NextDedup]_vars

\* image selection for the rows of one run, one worker per row
InitSelectSpec ==
    /\ PipelineParked
    /\ now = 0
    /\ BreakerParked
    /\ LimiterParked
    /\ DedupParked
    /\ InitSelect
    /\ RangeParked
    /\ ShutdownParked
    /\ RowParked
    /\ StoreParked
    /\ CacheParked
    /\ SearchParked
    /\ DispatchParked
    /\ TableParked
    /\ WriteParked
    /\ StageParked

NextSelect ==
    \/ \E r \in SelRows : CacheGet(r)
    \/ \E r \in SelRows : CacheCopy(r)
    \/ \E r \in SelRows, results \in ResultLists : Search(r, results)
    \/ \E r \in SelRows : Candidate(r)
    \/ \E r \in SelRows : Exhausted(r)
    \/ \E r \in SelRows : NoDownload(r)
    \/ \E r \in SelRows : CachePut(r)
    \/ \E r \in SelRows : Cleanup(r)

SpecSelect == InitSelectSpec /\ [][NextSelect]_vars

\* the index range of one run, for every start, end, table length and done set
InitRangeSpec ==
    /\ PipelineParked
    /\ now = 0
    /\ BreakerParked
    /\ LimiterParked
    /\ DedupParked
    /\ SelectParked
    /\ InitRange
    /\ ShutdownParked
    /\ RowParked
    /\ StoreParked
    /\ CacheParked
    /\ SearchParked
    /\ DispatchParked
    /\ TableParked
    /\ WriteParked
    /\ StageParked

NextRange ==
    \/ RangeAll
    \/ RangeFilter
    \/ \E failed \in SUBSET (0 .. MaxTable - 1) : RangeMain(failed)
    \/ RangeDlq

SpecRange == InitRangeSpec /\ [][NextRange]_vars

\* the shutdown handler under signals and stop requests
InitShutdownSpec ==
    /\ PipelineParked
    /\ now = 0
    /\ BreakerParked
    /\ LimiterParked
    /\ DedupParked
    /\ SelectParked
    /\ RangeParked
    /\ sd = NewShutdown
    /\ RowParked
    /\ StoreParked
    /\ CacheParked
    /\ SearchParked
    /\ DispatchParked
    /\ TableParked
    /\ WriteParked
    /\ StageParked

NextShutdown ==
    \/ Signal
    \/ HandleAcquire
    \/ HandleCount
    \/ HandleBranch
    \/ RequestStop
    \/ ShouldStop

SpecShutdown == InitShutdownSpec /\ [][NextShutdown]_vars

\* one row through _process, the dispatcher and the dead-letter pass
InitRowSpec ==
    /\ PipelineParked
    /\ now = 0
    /\ BreakerParked
    /\ LimiterParked
    /\ DedupParked
    /\ SelectParked
    /\ RangeParked
    /\ ShutdownParked
    /\ InitRow
    /\ StoreParked
    /\ CacheParked
    /\ SearchParked
    /\ DispatchParked
    /\ TableParked
    /\ WriteParked
    /\ StageParked

NextRow ==
    \/ RowCall
    \/ RowBegin
    \/ \E results \in CandidateLists : RowSearch(results)
    \/ \E fb \in BOOLEAN, results \in CandidateLists : RowFallback(fb, results)
    \/ RowSource
    \/ RowCheck
    \/ \E bgok \in BOOLEAN, ok \in BOOLEAN : RowCompose(bgok, ok)
    \/ \E accepted \in BOOLEAN : RowStage2(accepted)
    \/ \E ok \in BOOLEAN, accepted \in BOOLEAN : RowRecompose(ok, accepted)
    \/ RowUpdate
    \/ RowFinally
    \/ RowRecord
    \/ RowDlq
    \/ RowTrip
    \/ Recover

SpecRow == InitRowSpec /\ [][NextRow]_vars

\* the progress store under any sequence of calls
InitStoreSpec ==
    /\ PipelineParked
    /\ now = 0
    /\ BreakerParked
    /\ LimiterParked
    /\ DedupParked
    /\ SelectParked
    /\ RangeParked
    /\ ShutdownParked
    /\ RowParked
    /\ InitStore
    /\ CacheParked
    /\ SearchParked
    /\ DispatchParked
    /\ TableParked
    /\ WriteParked
    /\ StageParked

NextStore ==
    \/ \E i \in Rows, src \in Sources : StoreMarkDone(i, src)
    \/ \E i \in Rows, err \in BOOLEAN : StoreMarkFailed(i, err)
    \/ StoreReset
    \/ StoreDeadLetters

SpecStore == InitStoreSpec /\ [][NextStore]_vars

\* the image cache under put, get and changes of the files
InitCacheSpec ==
    /\ PipelineParked
    /\ now = 0
    /\ BreakerParked
    /\ LimiterParked
    /\ DedupParked
    /\ SelectParked
    /\ RangeParked
    /\ ShutdownParked
    /\ RowParked
    /\ StoreParked
    /\ ic = NewCache
    /\ SearchParked
    /\ DispatchParked
    /\ TableParked
    /\ WriteParked
    /\ StageParked

NextCache ==
    \/ \E q \in QueryTexts, v \in CacheValues : put(q, v)
    \/ \E q \in QueryTexts : get(q)
    \/ \E p \in PathChoices \ {""} : FileWritten(p)
    \/ \E p \in PathChoices \ {""} : FileRemoved(p)

SpecCache == InitCacheSpec /\ [][NextCache]_vars

\* one SearchManager.search call, for every priority list, threshold and engine answer
InitSearchSpec ==
    /\ PipelineParked
    /\ now = 0
    /\ BreakerParked
    /\ LimiterParked
    /\ DedupParked
    /\ SelectParked
    /\ RangeParked
    /\ ShutdownParked
    /\ RowParked
    /\ StoreParked
    /\ CacheParked
    /\ InitSearch
    /\ DispatchParked
    /\ TableParked
    /\ WriteParked
    /\ StageParked

NextSearch ==
    \/ \E urls \in UrlLists : SearchEngine(urls)
    \/ SearchExhausted
    \/ SearchReturn

SpecSearch == InitSearchSpec /\ [][NextSearch]_vars

\* the serial and the pooled dispatcher on the same rows with the same outcomes
InitDispatchSpec ==
    /\ PipelineParked
    /\ now = 0
    /\ BreakerParked
    /\ LimiterParked
    /\ DedupParked
    /\ SelectParked
    /\ RangeParked
    /\ ShutdownParked
    /\ RowParked
    /\ StoreParked
    /\ CacheParked
    /\ SearchParked
    /\ InitDispatch
    /\ TableParked
    /\ WriteParked
    /\ StageParked

NextDispatch ==
    \/ SerialStep
    \/ SerialResult
    \/ PoolSubmit
    \/ \E i \in Rows : PoolStart(i)
    \/ \E i \in Rows : PoolFinish(i)
    \/ PoolPoll
    \/ PoolDrain
    \/ PoolTick

SpecDispatch == InitDispatchSpec /\ [][NextDispatch]_vars

\* the workers of the pool on the row table and the checkpoint counter
InitTableSpec ==
    /\ PipelineParked
    /\ now = 0
    /\ BreakerParked
    /\ LimiterParked
    /\ DedupParked
    /\ SelectParked
    /\ RangeParked
    /\ ShutdownParked
    /\ RowParked
    /\ StoreParked
    /\ CacheParked
    /\ SearchParked
    /\ DispatchParked
    /\ InitTable
    /\ WriteParked
    /\ StageParked

NextTable ==
    \/ \E w \in TableWorkers : TableRead(w)
    \/ \E w \in TableWorkers : TableReadEnd(w)
    \/ \E w \in TableWorkers : TableLock(w)
    \/ \E w \in TableWorkers : TableWrite(w)
    \/ \E w \in TableWorkers : TableCount(w)
    \/ \E w \in TableWorkers : TableDue(w)
    \/ \E w \in TableWorkers : TableSaveLock(w)
    \/ \E w \in TableWorkers : TableSave(w)

SpecTable == InitTableSpec /\ [][NextTable]_vars

\* the dispatchers recording a batch while writes to the progress store can raise
InitWriteSpec ==
    /\ PipelineParked
    /\ now = 0
    /\ BreakerParked
    /\ LimiterParked
    /\ DedupParked
    /\ SelectParked
    /\ RangeParked
    /\ ShutdownParked
    /\ RowParked
    /\ StoreParked
    /\ CacheParked
    /\ SearchParked
    /\ DispatchParked
    /\ TableParked
    /\ InitWrite
    /\ StageParked

NextWrite ==
    \/ \E o \in ProcessOutcomes : WriteProcess(o)
    \/ \E raised \in BOOLEAN : WriteResult(raised)
    \/ \E raised \in BOOLEAN : WriteExcept(raised)
    \/ WriteEnd

SpecWrite == InitWriteSpec /\ [][NextWrite]_vars

\* the Stage-1 loop of download_best over every ranked list and score assignment
InitStageSpec ==
    /\ PipelineParked
    /\ now = 0
    /\ BreakerParked
    /\ LimiterParked
    /\ DedupParked
    /\ SelectParked
    /\ RangeParked
    /\ ShutdownParked
    /\ RowParked
    /\ StoreParked
    /\ CacheParked
    /\ SearchParked
    /\ DispatchParked
    /\ TableParked
    /\ WriteParked
    /\ InitStage

NextStage ==
    \/ StageSkip
    \/ StageVerify
    \/ StageExhausted

SpecStage == InitStageSpec /\ [][NextStage]_vars

(***************************************************************************)
(* Properties of the pipeline.                                             *)
(***************************************************************************)
DoneRows == {i \in Rows : prog[i].status = "done"}

RunEnded == dpc = "ended" /\ Quiescent(task)

\* C1: when a first run was interrupted by a shutdown trip and the second run
\* resumes on the same progress store, no row reaches success = True more than
\* once over the two runs.
C1_NoRowSucceedsTwice ==
    (runNo >= 2 /\ cfg.resume /\ hist.prevTrip) => \A i \in Rows : hist.succ[i] <= 1

\* every row has been attempted, but for the rows behind a row whose _process
\* raised on the serial path (the exception ends run())
AttemptedAsSingleRun ==
    \A i \in Rows :
        hist.out[i] = "none" =>
            /\ cfg.max_workers <= 1
            /\ \E j \in Rows : j < i /\ hist.out[j] = "crash"

\* the done rows of one uninterrupted run in which row i's attempts all end as out[i]
SingleRunDone == {i \in Rows : hist.out[i] = "ok"}

\* C2: with every row's attempts ending the same way each time, the done rows
\* after an interrupted run followed by an uninterrupted resumed run are the
\* done rows of a single uninterrupted run over the same input.
C2_ResumeSameDoneSet ==
    (RunEnded /\ ~hist.tripped /\ ~hist.flaky
        /\ (runNo = 1 \/ (cfg.resume /\ hist.prevTrip)))
    => (DoneRows = SingleRunDone /\ AttemptedAsSingleRun)

C2_Witness ==
    /\ RunEnded /\ ~hist.tripped /\ ~hist.flaky
    /\ runNo = 2 /\ cfg.resume /\ hist.prevTrip
    /\ hist.succ[0] = 2
    /\ prog[0].status = "done" /\ prog[1].status = "failed"

\* one step of one run keeps row i's progress on pending -> failed* -> done
MonotoneStep(i) ==
    /\ prog[i].status = "done" => prog'[i].status = "done"
    /\ prog[i].status = "failed" => prog'[i].status \in {"failed", "done"}

AllFailed(a) == \A k \in 1 .. Len(a) : a[k] = "fail"

Concluded(a) == \A k \in 1 .. Len(a) : a[k] # "run"

CallStarts(w) == caller[w] = "limiter" /\ caller'[w] = "search"

\* C5: once threshold consecutive failures have been recorded, no worker starts
\* a call to the provider until cooldown has passed since the breaker opened.
C5_NoCallDuringCooldown ==
    [][\A w \in Callers :
          CallStarts(w) => (bh.openedAt = None \/ now - bh.openedAt >= Cooldown)]_vars

\* C6: when the trial request granted after the cooldown has failed, no further
\* call starts before another cooldown has passed.
C6_OneTrialAfterCooldown ==
    [][\A w \in Callers :
          CallStarts(w) => ~(bh.trial.state = "failed" /\ now - bh.trial.at < Cooldown)]_vars

(***************************************************************************)
(* Properties of the rate limiter.                                         *)
(***************************************************************************)
\* ceil(r) for the rate r = TicksPerSec / interval
CeilRate == (TicksPerSec + limiter.interval - 1) \div limiter.interval

\* the calls started in the one-second window that begins at tick t
CallsIn(t) ==
    Cardinality({k \in 1 .. Len(starts) : t <= starts[k].at /\ starts[k].at <= t + TicksPerSec})

\* C7: in every sliding one-second window the provider calls started, each on a
\* return from RateLimiter.wait(), number at most ceil(r) + 1.
C7_WindowBound ==
    \A t \in 0 .. MaxClock : CallsIn(t) <= CeilRate + 1

C7_Witness ==
    /\ limiter.interval = 3
    /\ \E t \in 0 .. MaxClock : CallsIn(t) = CeilRate + 1
    /\ \E j, k \in 1 .. Len(starts) : starts[j].by # starts[k].by

(***************************************************************************)
(* Properties of the image selection.                                      *)
(***************************************************************************)
\* C8 as stated: no digest is persisted twice, whether by a download or by a
\* row served from the cache.
C8_NoDigestTwiceAnyPath ==
    \A h \in Digests : sh.saved[h] + sh.copied[h] <= 1

\* C8 amended: download_best persists no digest twice in one process; a row
\* served from the cache persists again the digest of the artifact cached before.
C8_NoDigestDownloadedTwice ==
    \A h \in Digests :
        /\ sh.saved[h] <= 1
        /\ sh.copied[h] >= 1 => sh.saved[h] = 1

C8_Witness ==
    \E h \in Digests : sh.saved[h] = 1 /\ sh.copied[h] >= 1 /\ sh.dups >= 1

(***************************************************************************)
(* Properties of ThreadSafeSet.                                            *)
(***************************************************************************)
\* add() calls on key k that are about to return True
ReturningTrue(k) ==
    Cardinality({t \in Threads : adder[t].pc = "exit" /\ adder[t].key = k /\ adder[t].ret})

\* C9: add(key) answers true to exactly the one caller that inserted the key
\* and false to every other and every later caller.
C9_AddTrueOnce ==
    \A k \in Keys :
        dh.trues[k] + ReturningTrue(k) = (IF k \in dset.data THEN 1 ELSE 0)

C9_Witness ==
    /\ dh.trues["h1"] = 1
    /\ dh.calls = MaxAdds
    /\ \A t \in Threads : adder[t].pc = "idle"
    /\ dset.data = {"h1"}

(***************************************************************************)
(* Properties of the counters, of task completion and of the final flush.  *)
(***************************************************************************)
\* C12: in every reachable state of a run, with any number of workers,
\* success + failed <= total + skipped.
C12_CounterBound ==
    stats.success + stats.failed <= stats.total + stats.skipped

\* row i is in the sequence s
InSeq(i, s) == \E k \in 1 .. Len(s) : s[k] = i

\* this step is the dispatcher reading the meta dict that _process returned for
\* row i: the serial loop after its call, or the polling loop taking a finished
\* future whose result() does not raise
Consumes(i) ==
    /\ ~task[i].raised
    /\ \/ dpc = "call" /\ dpc' = "single" /\ batch[bpos] = i
       \/ /\ dpc = "drain" /\ dpc' = "poll"
          /\ InSeq(i, pending) /\ ~InSeq(i, pending')

C14_EveryRowRecorded ==
    (RunEnded /\ ~hist.tripped /\ runNo = 1)
        => \A i \in Rows : prog[i].status \in {"done", "failed"}

\* C20: after run() has returned (its finally block has written the row table
\* to the CSV), no worker completes a row: the table written holds every
\* composed row.
C20_NoUpdateAfterFlush ==
    [][(dpc = "ended" /\ dpc' = "ended")
          => \A i \in Rows : task'[i].success = task[i].success]_vars

(***************************************************************************)
(* Properties of the index range.                                          *)
(***************************************************************************)
\* C11: for every start, end and table length the candidate index list is
\* [start, min(end, len)) and skipped + to_process is its size; with
\* start >= end (end = 0 included) no row is processed and skipped = 0.
C11_CandidateRange ==
    rng.pc = "ready" =>
        LET s == IF rng.start_index = Unset THEN 0 ELSE rng.start_index
            e == IF rng.end_index = Unset THEN rng.total ELSE rng.end_index
            range == Range(s, Min(e, rng.total))
        IN /\ rng.all_indices = range
           /\ rng.skipped + Len(rng.indices) = Len(range)
           /\ s >= e => (rng.indices = <<>> /\ rng.skipped = 0)

(***************************************************************************)
(* Properties of the shutdown handler.                                     *)
(***************************************************************************)
\* the innermost _handle frame can take a step
HandlerCanRun ==
    /\ sd.frames # <<>>
    /\ ~(Top(sd.frames).pc = "acquire" /\ sd.lock)

\* C18: once the handlers of the trips delivered so far can run no further,
\* a first trip has set the event and a second trip has terminated the
\* process with a non-zero exit code, also when the second trip arrived while
\* the first was being handled.
C18_SecondTripExits ==
    (~HandlerCanRun /\ sd.delivered >= 1) =>
        /\ sd.exited \/ sd.event
        /\ sd.delivered >= 2 => (sd.exited /\ sd.code # 0)

(***************************************************************************)
(* Properties of one row.                                                  *)
(***************************************************************************)
\* every provider call of the first pass raised
AllRaised1 == rw.h.searched1 /\ rw.h.raised1 /\ ~rw.h.answered1

\* the first pass is over for the row
FirstPassOver == rw.pc \in {"dlq", "ended"} \/ rw.pass = "dlq"

C16_RejectAllCounted ==
    (rw.pc \in {"dlq", "ended"} /\ rw.h.rejected /\ ~rw.h.accepted /\ rw.meta.success) =>
        /\ rw.out # "none"
        /\ rw.meta.source = "placeholder"
        /\ rw.prog[TheRow].status = "done"
        /\ rw.prog[TheRow].source = "placeholder"
        /\ rw.stats.verify_fails >= 1

\* C17: when stage 2 rejected the first composition and the first
\* recomposition (background removal off) was accepted, the file is the
\* recomposed one and meta has recomposed = true,
\* recompose_reason = post_verify_fail and stage2_accepted = true.
C17_RecomposedMeta ==
    rw.h.first =>
        /\ rw.out = "without_bg"
        /\ rw.meta.recomposed = "true"
        /\ rw.meta.recompose_reason = "post_verify_fail"
        /\ rw.meta.stage2_accepted = "true"

\* C19: a _process call that begins with the shutdown event set returns
\* skipped = true and changes nothing else: no counter, not the row table,
\* the cache, the dedup set, the progress record or a file, and no search,
\* download, compose or verification is started.
C19_ShortCircuitFrame ==
    [][(rw.pc = "begin" /\ rw.stop /\ rw'.pc # rw.pc) =>
          rw' = [rw EXCEPT !.pc = "returned", !.meta.skipped = TRUE]]_vars

\* the call of the dead-letter pass was cut short: total still counts the
\* first call only
C19_Witness ==
    /\ rw.pc = "returned" /\ rw.pass = "dlq" /\ rw.stop
    /\ rw.meta.skipped /\ ~rw.meta.success
    /\ rw.stats.total = 1 /\ rw.stats.dlq_retries = 1

(***************************************************************************)
(* Properties of the dead-letter pass and of safe_search's bookkeeping.    *)
(***************************************************************************)
\* this step starts the dead-letter pass
DlqStarts == pass = "main" /\ pass' = "dlq"

\* C27: in one run the dead-letter pass starts at most once, only after the
\* loop over the chunks of the main pass is over with no row still in work,
\* never with DLQ disabled or the shutdown event set; a row is attempted at
\* most once in the dead-letter pass.
C27_DlqOnce ==
    [][/\ DlqStarts =>
            /\ cfg.enable_dlq /\ ~shutdown
            /\ stats.dlq_retries = 0
            /\ chunkPos >= Len(indices)
            /\ Quiescent(task)
            /\ \A i \in Rows : Len(hist.att[i]) <= 1
       /\ (pass = "dlq" /\ runNo' = runNo) =>
            /\ pass' = "dlq"
            /\ stats'.dlq_retries = stats.dlq_retries
            /\ \A i \in Rows : Len(hist.att'[i]) <= 2]_vars

\* a row failed in the main pass and again in the dead-letter pass, and the
\* run ended with budget left for it (max_retries above its retries)
C27_Witness ==
    /\ RunEnded /\ pass = "dlq" /\ ~shutdown
    /\ \E i \in Rows :
          /\ hist.att[i] = <<"fail", "fail">>
          /\ prog[i].status = "failed"
          /\ prog[i].retries < cfg.dlq_retries

\* C30: every provider call that returns is recorded: record_success (the
\* failure count back to 0) when it returns without raising, whatever it
\* returns, record_failure when it raises.
C30_EveryReturnRecorded ==
    [][\A w \in Callers :
          (caller[w] = "search" /\ caller'[w] = "idle") =>
              \/ breaker' = record_success(breaker)
              \/ breaker' = record_failure(breaker, now)]_vars


(***************************************************************************)
(* Properties of the progress store.                                       *)
(***************************************************************************)
\* C22: a row that mark_failed was called on k >= 1 times in a row, counted from an
\* absent record, has status failed and retries = k; and a mark_failed call on a
\* record that existed leaves retries one above what the record had
C22_FailedStreak ==
    /\ \A i \in Rows :
          pm.streak[i] >= 1 =>
              /\ pm.table[i].status = "failed"
              /\ pm.table[i].retries = pm.streak[i]
    /\ (pm.last.op = "mark_failed" /\ pm.last.was.status # "absent") =>
          /\ pm.table[pm.last.row].status = "failed"
          /\ pm.table[pm.last.row].retries = pm.last.was.retries + 1

C22_Witness ==
    /\ pm.last.op = "mark_failed"
    /\ pm.last.was = [status |-> "failed", retries |-> 1, source |-> "", error |-> TRUE]
    /\ pm.streak[pm.last.row] = 2
    /\ pm.table[pm.last.row].retries = 2

\* C23: after mark_done(i), whatever record row i had, the row is done with no
\* error, is_done(i) is true, get_dead_letters() does not return i and the resume
\* filter of run() leaves i out of to_process
C23_DoneClears ==
    pm.last.op = "mark_done" =>
        LET i == pm.last.row
        IN /\ pm.table[i].status = "done"
           /\ ~pm.table[i].error
           /\ is_done(pm.table, i)
           /\ ~InSeq(i, get_dead_letters(pm.table, pm.max_retries))
           /\ ~InSeq(i, ToProcess(pm.table, SortedSeq(Rows), TRUE))

C23_Witness ==
    /\ pm.last.op = "mark_done"
    /\ pm.last.was.status = "failed"
    /\ pm.last.was.error
    /\ pm.last.was.retries < pm.max_retries
    /\ is_done(pm.table, pm.last.row)

\* C24: what get_dead_letters() returns is, without repetition, exactly the rows
\* whose record is failed with retries < max_retries; right after reset() that is
\* no row at all
C24_DeadLetterProjection ==
    /\ pm.last.op = "get_dead_letters" =>
          /\ \A i \in Rows :
                InSeq(i, pm.dead) <=>
                    (pm.table[i].status = "failed" /\ pm.table[i].retries < pm.max_retries)
          /\ \A j, k \in 1 .. Len(pm.dead) : pm.dead[j] = pm.dead[k] => j = k
    /\ pm.last.op = "reset" => get_dead_letters(pm.table, pm.max_retries) = <<>>

C24_Witness ==
    /\ pm.last.op = "get_dead_letters"
    /\ pm.dead # <<>>
    /\ \E i \in Rows : pm.table[i].status = "failed" /\ pm.table[i].retries >= pm.max_retries


(***************************************************************************)
(* Properties of the image cache.                                          *)
(***************************************************************************)
\* C21: a get(q) that comes right after put(q, v), the file of v existing, returns
\* the entry v with a hit_count of at least 1; put stores hit_count 0 and a get
\* that returns an entry leaves the stored hit_count one higher
C21_PutGetCounts ==
    /\ (/\ ic.last.op = "get" /\ ic.prev.op = "put" /\ ic.prev.qh = ic.last.qh
        /\ ic.prev.value.file_path \in ic.disk) =>
            /\ ic.ret # <<>>
            /\ ic.ret[1].value = ic.prev.value
            /\ ic.ret[1].hit_count >= 1
    /\ ic.last.op = "put" => ic.table[ic.last.qh][1].hit_count = 0
    /\ (ic.last.op = "get" /\ ic.ret # <<>>) =>
            ic.table[ic.last.qh][1].hit_count = ic.ret[1].hit_count + 1


(***************************************************************************)
(* Properties of SearchManager.search.                                     *)
(***************************************************************************)
\* the URLs among the first n results handed back by the engines
UrlsUpTo(n) == {br.arrivals[m].url : m \in 1 .. n}

\* C28: the engines asked are the first ones of cfg.priority, in that order; an
\* engine after the first is asked only when the engines before it together handed
\* back fewer distinct URLs than min_results_fallback; and when the call ends with
\* engines left unasked, the distinct URLs in hand have reached the threshold
C28_PriorityUntilEnough ==
    /\ Len(br.called) <= Len(br.priority)
    /\ \A j \in 1 .. Len(br.called) : br.called[j] = br.priority[j]
    /\ \A j \in 2 .. Len(br.called) :
          Cardinality(UrlsUpTo(br.upto[j])) < br.min_results_fallback
    /\ (br.pc \in {"return", "done"} /\ Len(br.called) < Len(br.priority)) =>
          Cardinality(UrlsUpTo(Len(br.arrivals))) >= br.min_results_fallback
    /\ (br.pc = "loop" /\ br.called # <<>>) =>
          Cardinality(UrlsUpTo(Len(br.arrivals))) < br.min_results_fallback

C28_Witness ==
    /\ br.pc = "done"
    /\ br.priority = <<"google", "duckduckgo", "bing">>
    /\ br.called = <<"google", "duckduckgo">>
    /\ br.upto[2] > 0
    /\ br.min_results_fallback = 2

\* the positions in br.arrivals at which a URL turns up for the first time
Firsts == {n \in 1 .. Len(br.arrivals) :
              \A m \in 1 .. (n - 1) : br.arrivals[m].url # br.arrivals[n].url}

\* C29: the list returned has no URL twice, is no longer than max_results, and is
\* the first occurrence of each URL, in the order the engines handed them back, cut
\* to max_results
C29_UniqueInOrder ==
    br.pc = "done" =>
        /\ \A p, q \in 1 .. Len(br.ret) : br.ret[p].url = br.ret[q].url => p = q
        /\ Len(br.ret) <= br.max_results
        /\ Len(br.ret) = Min(br.max_results, Cardinality(Firsts))
        /\ \A p \in 1 .. Len(br.ret) :
              \E n \in Firsts : /\ br.ret[p] = br.arrivals[n]
                                /\ Cardinality({m \in Firsts : m < n}) = p - 1

C29_Witness ==
    /\ br.pc = "done"
    /\ Len(br.called) >= 2
    /\ Len(br.arrivals) > Cardinality(Firsts)
    /\ Cardinality(Firsts) > br.max_results
    /\ Len(br.ret) = 2
    /\ br.ret[1].source # br.ret[2].source


(***************************************************************************)
(* Properties of the two dispatchers.                                      *)
(***************************************************************************)
\* C25: a pooled row that a polling cycle has seen running for longer than
\* worker_timeout is marked failed in the progress store, and the pooled
\* dispatcher does not go on waiting for it
C25_TimeoutFails ==
    \A i \in Rows :
        pl.late[i] =>
            /\ pl.pool.prog[i].status = "failed"
            /\ ~InSeq(i, pl.pool.pending)

\* C26: when both dispatchers have returned, given the same rows and the same
\* outcome of every row, the two progress stores hold the same set of done rows
C26_SameDoneRows ==
    (pl.single.pc = "ended" /\ pl.pool.pc = "ended") =>
        {i \in Rows : is_done(pl.single.prog, i)} = {i \in Rows : is_done(pl.pool.prog, i)}


(***************************************************************************)
(* Properties of the temp files, of the cached paths and of the digests.   *)
(***************************************************************************)
\* the files of the temp directory that were written for row r
FilesOf(r) == {f \in DOMAIN files : f.row = r}

\* C33: once _process has returned for a row, whatever the outcome and whether the
\* image chosen has an alpha channel or not, no temp file of the row is left
C33_NoTempFileLeft ==
    \A r \in SelRows : sel[r].pc = "done" => FilesOf(r) = {}

\* C37: the file_path of every cache entry put by a row still exists when the
\* _process call of that row has run its finally block
C37_CachedPathKept ==
    \A q \in DOMAIN cache :
        sel[cache[q].file_path.row].pc = "done" => Exists(files, cache[q].file_path)

\* C39: the digest of downloaded bytes is put into the set before validation and
\* verification and the set never loses a digest; a candidate whose digest is in
\* the set already is passed over (never verified, never the best, never saved),
\* in the same search, in a fallback search and in any later row
C39_SeenDigestSkipped ==
    [][/\ hashes \subseteq hashes'
       /\ \A r \in SelRows :
             (sel[r].pc = "loop" /\ sel'[r] # sel[r] /\ sel[r].left # <<>>) =>
                 LET h == Head(sel[r].left)
                 IN /\ hashes' \subseteq hashes \cup {h}
                    /\ (sel'[r].verified # sel[r].verified \/ sel'[r].pc = "put") =>
                           h \in hashes'
                    /\ h \in hashes =>
                           /\ sel'[r].verified = sel[r].verified
                           /\ sel'[r].best = sel[r].best
                           /\ sel'[r].pc \in {"loop", "exhausted"}
                           /\ files' = files
                           /\ sh'.saved = sh.saved]_vars

C39_Witness ==
    \E h \in Digests, r \in SelRows :
        /\ h \in hashes
        /\ sh.saved[h] = 0
        /\ \A x \in SelRows : sel[x].best.h # h
        /\ sh.dups >= 1
        /\ sel[r].fallback
        /\ sel[r].pc = "nodl"
        /\ hashes = {h}

\* C40: a worker that got a cache hit finds the cached file when it copies it,
\* whatever the other worker does between the hit and the copy
C40_HitCanCopy ==
    \A r \in SelRows : sel[r].pc = "copy" => Exists(files, sel[r].cached)


(***************************************************************************)
(* Properties of the row table and of the checkpoint counter.              *)
(***************************************************************************)
\* the workers that have been told to save and have not done it yet
SavesOwed == Cardinality({w \in TableWorkers :
                 \/ tb.pc[w] \in {"save", "saving"}
                 \/ tb.pc[w] = "counted" /\ tb.got[w] % tb.csv_save_interval = 0})

\* C34: every completion is given a count of its own, 1, 2, ... in turn, and the
\* checkpoints made or owed after n completions number n div csv_save_interval:
\* each count that is a multiple of the interval starts one save, in one worker
C34_OneSavePerInterval ==
    /\ \A n \in 1 .. (MaxCompletions + 1) :
          tb.given[n] = IF n <= tb.csv_cnt THEN 1 ELSE 0
    /\ tb.saves + SavesOwed = tb.csv_cnt \div tb.csv_save_interval

C34_Witness ==
    /\ tb.csv_save_interval = 2
    /\ tb.csv_cnt = 4
    /\ tb.saves = 2
    /\ \A w \in TableWorkers : tb.pc[w] = "idle"

\* C35: a thread that reads or writes the row table holds _df_lock, so no worker
\* reads its row while another thread writes the table or saves it
C35_TableUnderLock ==
    /\ \A w \in TableWorkers :
          tb.pc[w] \in {"reading", "writing", "saving"} => tb.lock = w
    /\ \A w, x \in TableWorkers :
          ~(tb.pc[w] = "reading" /\ tb.pc[x] \in {"writing", "saving"})


(***************************************************************************)
(* Properties of the recomposition.                                        *)
(***************************************************************************)
\* C32: after stage 2 rejected the first composition, a recomposition is made only
\* in a turn below max_recompose_attempts, background removal off in the first
\* turn and simplified text in the second, every turn is one further attempt, the
\* first accepted recomposition ends the procedure with recomposed = true, and
\* with none accepted the image last composed stays, recomposed = false and the
\* row goes on to success = true
C32_RecomposeInOrder ==
    [][/\ (rw.pc = "recompose" /\ (rw'.pc # rw.pc \/ rw'.attempt # rw.attempt \/ rw'.out # rw.out)) =>
             /\ rw'.out # rw.out =>
                   /\ rw.attempt < rw.max_recompose_attempts
                   /\ \/ rw'.out = "without_bg" /\ rw.attempt = 0 /\ rw.out = "initial"
                      \/ rw'.out = "simpler_text" /\ rw.attempt = 1
             /\ rw'.pc = "recompose" =>
                   /\ rw'.attempt = rw.attempt + 1
                   /\ rw'.meta.recomposed = "unset"
             /\ rw'.pc # "recompose" =>
                   /\ rw'.pc = "update"
                   /\ rw'.meta.recomposed \in {"true", "false"}
                   /\ rw'.meta.recomposed = "true" => rw'.out # rw.out
                   /\ rw'.meta.recomposed = "false" =>
                         /\ rw'.out = rw.out
                         /\ rw.attempt >= rw.max_recompose_attempts
       /\ (rw.pc = "update" /\ rw'.pc # rw.pc) =>
             /\ rw'.meta.success
             /\ rw'.out = rw.out
             /\ rw'.meta.recomposed = rw.meta.recomposed]_vars

C32_Witness ==
    /\ rw.pc = "returned"
    /\ rw.max_recompose_attempts = 2
    /\ rw.meta.recomposed = "false"
    /\ rw.out = "simpler_text"
    /\ rw.meta.success
    /\ rw.bg_attempted


(***************************************************************************)
(* Properties of the rows a run attempts.                                  *)
(***************************************************************************)
\* C38: every row attempted in a run, in the main pass or in the dead-letter
\* pass, lies in [start, min(end, len)); a failed record that an earlier run left
\* for a row outside that range is not attempted
C38_AttemptedInRange ==
    LET s == IF rng.start_index = Unset THEN 0 ELSE rng.start_index
        e == IF rng.end_index = Unset THEN rng.total ELSE rng.end_index
    IN \A i \in rng.attempted : s <= i /\ i < Min(e, rng.total)


(***************************************************************************)
(* Properties of recording a row when the progress store raises.           *)
(***************************************************************************)
\* C36: a write error of the progress store while a finished row is recorded is
\* handled in the dispatcher: it does not leave the run, a row that succeeded is
\* neither recorded as failed nor counted as failed, and every row is counted in
\* one outcome counter at most and in total once
C36_WriteErrorKeepsRow ==
    /\ wr.pc # "raised"
    /\ \A i \in Rows :
          /\ wr.outcome[i] = "success" =>
                /\ wr.progress[i].status # "failed"
                /\ wr.stats.failed[i] = 0
          /\ wr.stats.success[i] + wr.stats.failed[i] <= 1
          /\ wr.stats.total[i] <= 1


(***************************************************************************)
(* Properties of the Stage-1 loop.                                         *)
(***************************************************************************)
\* a candidate of the ranked list that the verifier rejects at once
ClipLow(k) ==
    /\ st.ranked[k].ok
    /\ st.ranked[k].clip < clip_reject_threshold

\* C31: a candidate with clip < clip_reject_threshold is never the best so far
\* and is never the candidate that download_best saves and returns
C31_ClipLowNeverBest ==
    /\ \A k \in st.was_best : ~ClipLow(k)
    /\ st.best_candidate # 0 => ~ClipLow(st.best_candidate)
    /\ st.ret.success => ~ClipLow(st.ret.k)

====
